---------------------------- MODULE Spec2Model ----------------------------
(***************************************************************************)
(* Course scheduling core: session expansion, the exact (CP-SAT) model     *)
(* builder and adapter, the greedy heuristic, the validation engine, the   *)
(* objective and metrics, solve_schedule and the scenario comparison.      *)
(*                                                                         *)
(* Conventions of the model                                                *)
(*  - Python lists are sequences; lists the code only tests membership of  *)
(*    (features, available/preferred/allowed slot ids) are sets.           *)
(*  - A session id f"{course.id}::S{index}" is the pair <<course.id,       *)
(*    index>>: the formatted string determines both parts (the text after  *)
(*    the last "::S" is the decimal index), so two formatted ids are equal *)
(*    exactly when the pairs are.                                          *)
(*  - cluster_tag None is "" (the code only tests its truthiness) and      *)
(*    max_sessions_per_day None is 0 (the field is >= 1 when present).     *)
(*  - Percentages are integers in hundredths of a percent.                 *)
(***************************************************************************)
EXTENDS Integers, Sequences, FiniteSets, TLC

VARIABLES
    data,          \* the SchedulingInput of the request
    solver_mode,   \* "auto" | "cp_sat" | "heuristic"
    pc,            \* position inside solve_schedule
    cp,            \* what _solve_with_cp_sat returned (status, assignments, notes)
    heur,          \* the heuristic's working state and loop position
    calls,         \* the solving paths solve_schedule has invoked, in order
    result,        \* the ScheduleResult of _build_result
    validation,    \* the ValidationReport of _build_result
    cmp,           \* the compare request and its progress
    payload_assignments  \* the assignment list of a validate request

vars == <<data, solver_mode, pc, cp, heur, calls, result, validation, cmp,
          payload_assignments>>

----------------------------------------------------------------------------
(* Generic helpers for Python lists, dicts and sorted().                   *)

Range(s) == {s[i] : i \in DOMAIN s}

RECURSIVE SumSeq(_)
SumSeq(s) == IF s = <<>> THEN 0 ELSE Head(s) + SumSeq(Tail(s))

RECURSIVE SumSet(_, _)
SumSet(S, f) ==
    IF S = {} THEN 0
    ELSE LET x == CHOOSE y \in S : TRUE IN f[x] + SumSet(S \ {x}, f)

RECURSIVE FlattenSeq(_)
FlattenSeq(ss) == IF ss = <<>> THEN <<>> ELSE Head(ss) \o FlattenSeq(Tail(ss))

\* The subsequence of s at the indices in I, in index order.
RECURSIVE PickSeq(_, _, _)
PickSeq(s, I, from) ==
    IF from > Len(s) THEN <<>>
    ELSE (IF from \in I THEN <<s[from]>> ELSE <<>>) \o PickSeq(s, I, from + 1)

\* F applied to the value of v, with v evaluated once (a local variable).
Bind(v, F(_)) == CHOOSE r \in {F(x) : x \in {v}} : TRUE

\* {x.id: x for x in list}: the last element with an id wins.
HasId(list, id) == \E i \in DOMAIN list : list[i].id = id

ById(list, id) ==
    list[CHOOSE i \in DOMAIN list :
            /\ list[i].id = id
            /\ \A j \in DOMAIN list : list[j].id = id => j <= i]

\* dict.values() of {x.id: x for x in list}: keys in first-insertion order,
\* each with its last value.
DictValues(list) ==
    LET firsts == {i \in DOMAIN list : \A j \in 1..(i - 1) : list[j].id # list[i].id}
        keys == PickSeq(list, firsts, 1)
    IN [k \in DOMAIN keys |-> ById(list, keys[k].id)]

\* sorted(seq, key=...): a stable sort; Less is the strict order of the keys.
StableSort(seq, Less(_, _)) ==
    Bind(seq, LAMBDA s :
        LET Rank(i) == Cardinality({j \in DOMAIN s :
                            \/ Less(s[j], s[i])
                            \/ (~Less(s[i], s[j]) /\ j < i)}) + 1
        IN [p \in DOMAIN s |-> s[CHOOSE i \in DOMAIN s : Rank(i) = p]])

----------------------------------------------------------------------------
(* Orders on the identifiers the code sorts as strings.                    *)

CourseIdOrder == <<"C1", "C2", "C3">>

IdRank(order, id) == CHOOSE i \in DOMAIN order : order[i] = id

\* str comparison of two session ids "<course>::S<index>" (indices below 10)
SessionIdLess(a, b) ==
    \/ IdRank(CourseIdOrder, a[1]) < IdRank(CourseIdOrder, b[1])
    \/ (a[1] = b[1] /\ a[2] < b[2])

----------------------------------------------------------------------------
(* session_utils.py                                                        *)

CourseSession(course, index) ==
    [session_id |-> <<course.id, index>>,
     course_id |-> course.id,
     instructor_id |-> course.instructor_id,
     enrollment |-> course.enrollment,
     priority |-> course.priority,
     cluster_tag |-> course.cluster_tag,
     required_features |-> course.required_features,
     preferred_time_slots |-> course.preferred_time_slots,
     allowed_time_slots |-> course.allowed_time_slots,
     avoid_same_day_sessions |-> course.avoid_same_day_sessions]

CourseSessionsDescending(course) ==
    [index \in 1..course.sessions_per_week |->
        CourseSession(course, course.sessions_per_week + 1 - index)]

CourseSessions(course) ==
    [index \in 1..course.sessions_per_week |-> CourseSession(course, index)]

expand_course_sessions(courses) ==
    FlattenSeq([c \in DOMAIN courses |-> CourseSessions(courses[c])])

\* session_by_id = {session.session_id: session for session in sessions}
HasSession(sessions, sid) == \E i \in DOMAIN sessions : sessions[i].session_id = sid

SessionById(sessions, sid) ==
    sessions[CHOOSE i \in DOMAIN sessions :
                /\ sessions[i].session_id = sid
                /\ \A j \in DOMAIN sessions : sessions[j].session_id = sid => j <= i]

SessionIds(sessions) == {sessions[i].session_id : i \in DOMAIN sessions}

----------------------------------------------------------------------------
(* objective.py                                                            *)

\* int((enrollment / room_capacity) * 100); the quotients the model's inputs
\* produce (1/2, 1) are exact in binary floating point.
Utilization(enrollment, room_capacity) == (enrollment * 100) \div room_capacity

assignment_local_score(session, instructor_preferred_slots, room_capacity, time_slot_id, slot_day, weights, existing_cluster_days) ==
    (IF time_slot_id \in instructor_preferred_slots
        THEN 100 * weights.instructor_preference ELSE 0)
    + (IF room_capacity > 0
        THEN Utilization(session.enrollment, room_capacity) * weights.room_efficiency
        ELSE 0)
    + (IF time_slot_id \in session.preferred_time_slots
        THEN session.priority * 20 * weights.course_priority ELSE 0)
    + (IF session.cluster_tag # "" /\ existing_cluster_days # {}
        THEN (IF slot_day \in existing_cluster_days
                THEN 50 * weights.cluster_compactness
                ELSE 0 - 100 * weights.cluster_compactness)
        ELSE 0)

\* The assignments of the list the loop does not skip (session, instructor of
\* the record, room and slot all known).
ScoredAssignments(d, sessions, assignments) ==
    {i \in DOMAIN assignments :
        /\ HasSession(sessions, assignments[i].session_id)
        /\ HasId(d.instructors, assignments[i].instructor_id)
        /\ HasId(d.rooms, assignments[i].room_id)
        /\ HasId(d.time_slots, assignments[i].time_slot_id)}

\* The four components accumulated over the scored assignments.
ObjectiveComponents(d, sessions, assignments, weights, scored) ==
    LET sess(i) == SessionById(sessions, assignments[i].session_id)
        instr(i) == ById(d.instructors, assignments[i].instructor_id)
        room(i) == ById(d.rooms, assignments[i].room_id)
        slot(i) == ById(d.time_slots, assignments[i].time_slot_id)
        tags == {sess(i).cluster_tag : i \in scored} \ {""}
        cluster_days(tag) == {slot(i).day : i \in {j \in scored : sess(j).cluster_tag = tag}}
        cluster_counts(tag) == Cardinality({j \in scored : sess(j).cluster_tag = tag})
        cluster_penalty_units ==
            Bind({tag \in tags : cluster_counts(tag) > 1},
                 LAMBDA multi : SumSet(multi, [tag \in multi |-> Cardinality(cluster_days(tag))]))
    IN [instructor_preference |->
            100 * weights.instructor_preference
            * Cardinality({i \in scored :
                    assignments[i].time_slot_id \in instr(i).preferred_time_slots}),
        room_efficiency |->
            SumSet(scored, [i \in scored |->
                Utilization(sess(i).enrollment, room(i).capacity)
                    * weights.room_efficiency]),
        course_priority |->
            SumSet(scored, [i \in scored |->
                IF assignments[i].time_slot_id \in sess(i).preferred_time_slots
                    THEN sess(i).priority * 20 * weights.course_priority ELSE 0]),
        cluster_compactness |->
            0 - (cluster_penalty_units * 100 * weights.cluster_compactness)]

WithTotal(c) ==
    [instructor_preference |-> c.instructor_preference,
     room_efficiency |-> c.room_efficiency,
     course_priority |-> c.course_priority,
     cluster_compactness |-> c.cluster_compactness,
     total |-> c.instructor_preference + c.room_efficiency
                + c.course_priority + c.cluster_compactness]

compute_objective_breakdown(d, assignments, weights) ==
    Bind(expand_course_sessions(d.courses), LAMBDA sessions :
        Bind(ScoredAssignments(d, sessions, assignments), LAMBDA scored :
            Bind(ObjectiveComponents(d, sessions, assignments, weights, scored),
                 WithTotal)))

----------------------------------------------------------------------------
(* heuristic.py                                                            *)

SlotLess(a, b) == a.order < b.order

SortedSlots(d) == StableSort(d.time_slots, SlotLess)

\* The (room, slot) options of one session, rooms in room_by_id.values()
\* order and slots by order index.
FeasibleOptions(d, session) ==
    IF ~HasId(d.instructors, session.instructor_id) THEN <<>>
    ELSE
        LET instructor == ById(d.instructors, session.instructor_id)
            instructor_available == instructor.available_time_slots
            allowed_slots == session.allowed_time_slots
            rooms == DictValues(d.rooms)
            slots == SortedSlots(d)
            okSlots == {k \in DOMAIN slots :
                            /\ (instructor_available = {} \/ slots[k].id \in instructor_available)
                            /\ (allowed_slots = {} \/ slots[k].id \in allowed_slots)}
            slotIds == [k \in DOMAIN slots |-> slots[k].id]
            perRoom(r) ==
                IF \/ rooms[r].capacity < session.enrollment
                   \/ ~(session.required_features \subseteq rooms[r].features)
                THEN <<>>
                ELSE LET picked == PickSeq(slotIds, okSlots, 1)
                     IN [k \in DOMAIN picked |-> <<rooms[r].id, picked[k]>>]
        IN FlattenSeq([r \in DOMAIN rooms |-> perRoom(r)])

\* feasible[session.session_id] = options: a later session with the same id
\* overwrites an earlier one's entry.
build_feasible_candidates(d, sessions) ==
    [sid \in SessionIds(sessions) |-> FeasibleOptions(d, SessionById(sessions, sid))]

SessionDays(d) == {d.time_slots[i].day : i \in DOMAIN d.time_slots}

CourseInstructorIds(d) == {d.courses[i].instructor_id : i \in DOMAIN d.courses}

\* The entry state with the sessions sorted by ascending priority among
\* equal candidate counts.
HeuristicStartAscendingPriority(d) ==
    LET sessions == expand_course_sessions(d.courses)
        feasible == build_feasible_candidates(d, sessions)
        KeyLess(a, b) ==
            \/ Len(feasible[a.session_id]) < Len(feasible[b.session_id])
            \/ /\ Len(feasible[a.session_id]) = Len(feasible[b.session_id])
               /\ a.priority < b.priority
    IN [sorted_sessions |-> StableSort(sessions, KeyLess),
        feasible_candidates |-> feasible,
        next |-> 1,
        assignments |-> <<>>,
        unscheduled |-> <<>>,
        occupied_room_slot |-> {},
        occupied_instructor_slot |-> {},
        course_days_used |-> {},
        instructor_day_count |->
            [k \in CourseInstructorIds(d) \X SessionDays(d) |-> 0],
        cluster_days_used |-> {}]

\* The state of solve_with_heuristic on entry to its loop.
HeuristicStart(d) ==
    LET sessions == expand_course_sessions(d.courses)
        feasible == build_feasible_candidates(d, sessions)
        KeyLess(a, b) ==
            \/ Len(feasible[a.session_id]) < Len(feasible[b.session_id])
            \/ /\ Len(feasible[a.session_id]) = Len(feasible[b.session_id])
               /\ b.priority < a.priority
    IN [sorted_sessions |-> StableSort(sessions, KeyLess),
        feasible_candidates |-> feasible,
        next |-> 1,
        assignments |-> <<>>,
        unscheduled |-> <<>>,
        occupied_room_slot |-> {},
        occupied_instructor_slot |-> {},
        course_days_used |-> {},
        instructor_day_count |->
            [k \in CourseInstructorIds(d) \X SessionDays(d) |-> 0],
        cluster_days_used |-> {}]

\* The four exclusion filters of the candidate scan.
CandidateSurvivesRoomBlind(d, h, session, cand) ==
    LET slot == ById(d.time_slots, cand[2])
        instructor == ById(d.instructors, session.instructor_id)
    IN /\ <<session.instructor_id, cand[2]>> \notin h.occupied_instructor_slot
       /\ ~(session.avoid_same_day_sessions
                /\ <<session.course_id, slot.day>> \in h.course_days_used)
       /\ ~(instructor.max_sessions_per_day # 0
                /\ h.instructor_day_count[<<session.instructor_id, slot.day>>]
                        >= instructor.max_sessions_per_day)

\* The scan with the two slot filters only.
CandidateSurvivesDayBlind(d, h, session, cand) ==
    /\ cand \notin h.occupied_room_slot
    /\ <<session.instructor_id, cand[2]>> \notin h.occupied_instructor_slot

CandidateSurvives(d, h, session, cand) ==
    LET slot == ById(d.time_slots, cand[2])
        instructor == ById(d.instructors, session.instructor_id)
    IN /\ cand \notin h.occupied_room_slot
       /\ <<session.instructor_id, cand[2]>> \notin h.occupied_instructor_slot
       /\ ~(session.avoid_same_day_sessions
                /\ <<session.course_id, slot.day>> \in h.course_days_used)
       /\ ~(instructor.max_sessions_per_day # 0
                /\ h.instructor_day_count[<<session.instructor_id, slot.day>>]
                        >= instructor.max_sessions_per_day)

CandidateScore(d, h, session, cand) ==
    LET slot == ById(d.time_slots, cand[2])
        room == ById(d.rooms, cand[1])
        instructor == ById(d.instructors, session.instructor_id)
        cluster_days == {p[2] : p \in {q \in h.cluster_days_used : q[1] = session.cluster_tag}}
    IN assignment_local_score(session, instructor.preferred_time_slots,
                              room.capacity, cand[2], slot.day,
                              d.options.objective_weights, cluster_days)

\* The scan keeping the first surviving candidate whatever its score.
BestOptionFirstAlive(d, h, session, candidates) ==
    LET alive == {k \in DOMAIN candidates : CandidateSurvives(d, h, session, candidates[k])}
    IN IF alive = {} THEN 0 ELSE CHOOSE k \in alive : \A j \in alive : k <= j

\* Index of the candidate the scan keeps (0 when none survives): the first
\* one whose score no surviving candidate exceeds.
BestOption(d, h, session, candidates) ==
    LET alive == {k \in DOMAIN candidates : CandidateSurvives(d, h, session, candidates[k])}
        best == {k \in alive : \A j \in alive :
                    /\ CandidateScore(d, h, session, candidates[j])
                            <= CandidateScore(d, h, session, candidates[k])
                    /\ (CandidateScore(d, h, session, candidates[j])
                            = CandidateScore(d, h, session, candidates[k]) => k <= j)}
    IN IF best = {} THEN 0 ELSE CHOOSE k \in best : TRUE

ScheduleAssignment(session, room_id, slot_id) ==
    [session_id |-> session.session_id,
     course_id |-> session.course_id,
     instructor_id |-> session.instructor_id,
     room_id |-> room_id,
     time_slot_id |-> slot_id]

\* A loop body that revisits: a session that cannot be placed evicts the
\* latest placement.
HeuristicStepEvicting(d, h) ==
    LET session == h.sorted_sessions[h.next]
        candidates == h.feasible_candidates[session.session_id]
        skip == [h EXCEPT !.next = @ + 1,
                          !.unscheduled = Append(@, session.session_id),
                          !.assignments = IF @ = <<>> THEN @
                                          ELSE SubSeq(@, 1, Len(@) - 1)]
    IN IF candidates = <<>> THEN skip
       ELSE IF ~HasId(d.instructors, session.instructor_id) THEN skip
       ELSE LET best == BestOption(d, h, session, candidates)
            IN IF best = 0 THEN skip
               ELSE LET room_id == candidates[best][1]
                        slot_id == candidates[best][2]
                        slot == ById(d.time_slots, slot_id)
                    IN [h EXCEPT
                         !.next = @ + 1,
                         !.assignments = Append(@, ScheduleAssignment(session, room_id, slot_id)),
                         !.occupied_room_slot = @ \cup {<<room_id, slot_id>>},
                         !.occupied_instructor_slot = @ \cup {<<session.instructor_id, slot_id>>},
                         !.course_days_used = @ \cup {<<session.course_id, slot.day>>},
                         !.instructor_day_count[<<session.instructor_id, slot.day>>] = @ + 1,
                         !.cluster_days_used =
                            IF session.cluster_tag # ""
                                THEN @ \cup {<<session.cluster_tag, slot.day>>} ELSE @]

\* One iteration of the loop over sorted_sessions.
HeuristicStep(d, h) ==
    LET session == h.sorted_sessions[h.next]
        candidates == h.feasible_candidates[session.session_id]
        skip == [h EXCEPT !.next = @ + 1,
                          !.unscheduled = Append(@, session.session_id)]
    IN IF candidates = <<>> THEN skip
       ELSE IF ~HasId(d.instructors, session.instructor_id) THEN skip
       ELSE LET best == BestOption(d, h, session, candidates)
            IN IF best = 0 THEN skip
               ELSE LET room_id == candidates[best][1]
                        slot_id == candidates[best][2]
                        slot == ById(d.time_slots, slot_id)
                    IN [h EXCEPT
                         !.next = @ + 1,
                         !.assignments = Append(@, ScheduleAssignment(session, room_id, slot_id)),
                         !.occupied_room_slot = @ \cup {<<room_id, slot_id>>},
                         !.occupied_instructor_slot = @ \cup {<<session.instructor_id, slot_id>>},
                         !.course_days_used = @ \cup {<<session.course_id, slot.day>>},
                         !.instructor_day_count[<<session.instructor_id, slot.day>>] = @ + 1,
                         !.cluster_days_used =
                            IF session.cluster_tag # ""
                                THEN @ \cup {<<session.cluster_tag, slot.day>>} ELSE @]

HeuristicLoopDone(h) == h.next > Len(h.sorted_sessions)

RECURSIVE HeuristicLoop(_, _)
HeuristicLoop(d, h) ==
    IF HeuristicLoopDone(h) THEN h ELSE HeuristicLoop(d, HeuristicStep(d, h))

Note(kind, arg) == [kind |-> kind, arg |-> arg]

\* The return with status fallback as soon as one session was placed.
HeuristicSolveOutputIfAnyPlaced(d, h) ==
    [status |-> IF h.assignments = <<>> THEN "fallback_partial" ELSE "fallback",
     assignments |-> h.assignments,
     notes |-> <<Note("heuristic_executed", 0), Note("greedy", 0)>>
                \o (IF h.unscheduled # <<>>
                        THEN <<Note("left_unscheduled", Len(h.unscheduled))>> ELSE <<>>),
     objective_breakdown |->
        compute_objective_breakdown(d, h.assignments, d.options.objective_weights)]

\* What solve_with_heuristic returns once the loop has ended in state h.
HeuristicSolveOutput(d, h) ==
    [status |-> IF h.unscheduled # <<>> THEN "fallback_partial" ELSE "fallback",
     assignments |-> h.assignments,
     notes |-> <<Note("heuristic_executed", 0), Note("greedy", 0)>>
                \o (IF h.unscheduled # <<>>
                        THEN <<Note("left_unscheduled", Len(h.unscheduled))>> ELSE <<>>),
     objective_breakdown |->
        compute_objective_breakdown(d, h.assignments, d.options.objective_weights)]

solve_with_heuristic(d) == HeuristicSolveOutput(d, HeuristicLoop(d, HeuristicStart(d)))

----------------------------------------------------------------------------
(* validation.py                                                           *)

ValidationIssue(code, details) == [code |-> code, level |-> "error", details |-> details]

\* s without the repeats of an earlier element (the key order of a dict
\* filled in the order of s).
DistinctInOrder(seq) ==
    Bind(seq, LAMBDA s :
        PickSeq(s, {i \in DOMAIN s : \A j \in 1..(i - 1) : s[j] # s[i]}, 1))

\* The records that pass the UNKNOWN_SESSION and DUPLICATE_SESSION_ASSIGNMENT
\* gates, i.e. reach seen_sessions.add.
KnownRecord(sessions, assignments, i) == HasSession(sessions, assignments[i].session_id)

DuplicateRecord(sessions, assignments, i) ==
    /\ KnownRecord(sessions, assignments, i)
    /\ \E j \in 1..(i - 1) : assignments[j].session_id = assignments[i].session_id

\* The known records, duplicates included.
CheckedRecordsWithDuplicates(sessions, assignments) ==
    {i \in DOMAIN assignments : KnownRecord(sessions, assignments, i)}

CheckedRecords(sessions, assignments) ==
    {i \in DOMAIN assignments :
        KnownRecord(sessions, assignments, i) /\ ~DuplicateRecord(sessions, assignments, i)}

\* The issues the per-record pass appends for record a.
RecordIssues(d, sessions, assignments, i) ==
    LET a == assignments[i]
    IN IF ~KnownRecord(sessions, assignments, i)
         THEN <<ValidationIssue("UNKNOWN_SESSION", [session_id |-> a.session_id])>>
       ELSE IF DuplicateRecord(sessions, assignments, i)
         THEN <<ValidationIssue("DUPLICATE_SESSION_ASSIGNMENT", [session_id |-> a.session_id])>>
       ELSE
         LET session == SessionById(sessions, a.session_id)
             courseIssues ==
                IF a.course_id # session.course_id
                THEN <<ValidationIssue("COURSE_MISMATCH",
                        [session_id |-> a.session_id,
                         expected_course_id |-> session.course_id,
                         provided_course_id |-> a.course_id])>>
                ELSE <<>>
             instructorIssues ==
                IF a.instructor_id # session.instructor_id
                THEN <<ValidationIssue("INSTRUCTOR_MISMATCH",
                        [session_id |-> a.session_id,
                         expected_instructor_id |-> session.instructor_id,
                         provided_instructor_id |-> a.instructor_id])>>
                ELSE <<>>
             roomIssues ==
                IF ~HasId(d.rooms, a.room_id)
                THEN <<ValidationIssue("UNKNOWN_ROOM", [room_id |-> a.room_id])>>
                ELSE LET room == ById(d.rooms, a.room_id)
                     IN (IF room.capacity < session.enrollment
                         THEN <<ValidationIssue("ROOM_CAPACITY_VIOLATION",
                                 [session_id |-> session.session_id,
                                  room_id |-> room.id,
                                  room_capacity |-> room.capacity,
                                  enrollment |-> session.enrollment])>>
                         ELSE <<>>)
                        \o
                        (IF ~(session.required_features \subseteq room.features)
                         THEN <<ValidationIssue("ROOM_FEATURE_VIOLATION",
                                 [session_id |-> session.session_id,
                                  room_id |-> room.id,
                                  missing_features |->
                                        session.required_features \ room.features])>>
                         ELSE <<>>)
             slotIssues ==
                IF ~HasId(d.time_slots, a.time_slot_id)
                THEN <<ValidationIssue("UNKNOWN_TIME_SLOT", [time_slot_id |-> a.time_slot_id])>>
                ELSE LET slot == ById(d.time_slots, a.time_slot_id)
                     IN (IF ~HasId(d.instructors, session.instructor_id)
                         THEN <<ValidationIssue("UNKNOWN_INSTRUCTOR",
                                 [instructor_id |-> session.instructor_id])>>
                         ELSE LET instructor == ById(d.instructors, session.instructor_id)
                              IN IF /\ instructor.available_time_slots # {}
                                    /\ slot.id \notin instructor.available_time_slots
                                 THEN <<ValidationIssue("INSTRUCTOR_AVAILABILITY_VIOLATION",
                                         [session_id |-> session.session_id,
                                          instructor_id |-> instructor.id,
                                          time_slot_id |-> slot.id])>>
                                 ELSE <<>>)
                        \o
                        (IF /\ session.allowed_time_slots # {}
                            /\ slot.id \notin session.allowed_time_slots
                         THEN <<ValidationIssue("COURSE_TIME_WINDOW_VIOLATION",
                                 [session_id |-> session.session_id,
                                  course_id |-> session.course_id,
                                  time_slot_id |-> slot.id])>>
                         ELSE <<>>)
         IN courseIssues \o instructorIssues \o roomIssues \o slotIssues

\* room_slot_usage / instructor_slot_usage: the checked records' session ids
\* under each key, in record order; one issue per key with several.
UsageList(recs, Key(_), key) ==
    Bind(PickSeq(recs, {k \in DOMAIN recs : Key(recs[k]) = key}, 1),
         LAMBDA under : [k \in DOMAIN under |-> under[k].session_id])

ConflictIssues(recs, Key(_), Issue(_, _)) ==
    Bind(DistinctInOrder([k \in DOMAIN recs |-> Key(recs[k])]), LAMBDA keys :
        Bind(PickSeq(keys, {k \in DOMAIN keys : Len(UsageList(recs, Key, keys[k])) > 1}, 1),
             LAMBDA ks : [k \in DOMAIN ks |-> Issue(ks[k], UsageList(recs, Key, ks[k]))]))

RoomSlotKeyRoomOnly(a) == <<a.room_id, "">>

RoomSlotKey(a) == <<a.room_id, a.time_slot_id>>

InstructorSlotKey(a) == <<a.instructor_id, a.time_slot_id>>

RoomTimeConflict(key, session_ids) ==
    ValidationIssue("ROOM_TIME_CONFLICT",
        [room_id |-> key[1], time_slot_id |-> key[2], session_ids |-> session_ids])

InstructorTimeConflict(key, session_ids) ==
    ValidationIssue("INSTRUCTOR_TIME_CONFLICT",
        [instructor_id |-> key[1], time_slot_id |-> key[2], session_ids |-> session_ids])

\* The expanded sessions without a checked record, one entry per session
\* rather than per session id.
MissingSessionsPerSession(sessions, assignments, checked) ==
    Bind([i \in DOMAIN sessions |-> sessions[i].session_id], LAMBDA ids :
        StableSort(
            PickSeq(ids, {k \in DOMAIN ids :
                            \A i \in checked : assignments[i].session_id # ids[k]}, 1),
            SessionIdLess))

\* sorted(set(session_by_id) - seen_sessions)
MissingSessions(sessions, assignments, checked) ==
    Bind(DistinctInOrder([i \in DOMAIN sessions |-> sessions[i].session_id]), LAMBDA ids :
        StableSort(
            PickSeq(ids, {k \in DOMAIN ids :
                            \A i \in checked : assignments[i].session_id # ids[k]}, 1),
            SessionIdLess))

\* The missing-session issue at level warning.
MissingIssueWarning(session_id) ==
    [code |-> "MISSING_SESSION_ASSIGNMENT", level |-> "warning",
     details |-> [session_id |-> session_id]]

MissingIssue(session_id) ==
    ValidationIssue("MISSING_SESSION_ASSIGNMENT", [session_id |-> session_id])

ValidationReportUnlessAllErrors(issues) ==
    [valid |-> ~(\A k \in DOMAIN issues : issues[k].level = "error"),
     issues |-> issues]

ValidationReport(issues) ==
    [valid |-> ~(\E k \in DOMAIN issues : issues[k].level = "error"),
     issues |-> issues]

ScheduleIssues(d, sessions, assignments, checked) ==
    FlattenSeq([i \in DOMAIN assignments |-> RecordIssues(d, sessions, assignments, i)])
    \o Bind(PickSeq(assignments, checked, 1), LAMBDA recs :
            ConflictIssues(recs, RoomSlotKey, RoomTimeConflict)
            \o ConflictIssues(recs, InstructorSlotKey, InstructorTimeConflict))
    \o Bind(MissingSessions(sessions, assignments, checked), LAMBDA missing :
            [k \in DOMAIN missing |-> MissingIssue(missing[k])])

validate_schedule(d, assignments) ==
    Bind(expand_course_sessions(d.courses), LAMBDA sessions :
        Bind(CheckedRecords(sessions, assignments), LAMBDA checked :
            Bind(ScheduleIssues(d, sessions, assignments, checked), ValidationReport)))

IssueCodes(report) == {report.issues[k].code : k \in DOMAIN report.issues}

----------------------------------------------------------------------------
(* metrics.py                                                              *)

\* round(100 * num / den, 2) in hundredths of a percent (no quotient of the
\* model's inputs lies half-way between two hundredths).
PctRoundedUp(num, den) == (10000 * num + den) \div den

Pct(num, den) == (2 * 10000 * num + den) \div (2 * den)

RECURSIVE ProductSeq(_)
ProductSeq(s) == IF s = <<>> THEN 1 ELSE Head(s) * ProductSeq(Tail(s))

\* The assignments counted into utilization_sum.
UtilizationCounted(d, sessions, assignments) ==
    {i \in DOMAIN assignments :
        /\ HasSession(sessions, assignments[i].session_id)
        /\ HasId(d.rooms, assignments[i].room_id)
        /\ ById(d.rooms, assignments[i].room_id).capacity > 0}

\* room_utilization_pct; utilization_sum is kept as a fraction over denom,
\* the product of the room capacities.
RoomUtilizationPct(d, sessions, assignments, counted, denom) ==
    IF counted = {} THEN 0
    ELSE Pct(SumSet(counted, [i \in counted |->
                (SessionById(sessions, assignments[i].session_id).enrollment * denom)
                    \div ById(d.rooms, assignments[i].room_id).capacity]),
             Cardinality(counted) * denom)

PreferenceHits(d, assignments) ==
    Cardinality({i \in DOMAIN assignments :
        /\ HasId(d.instructors, assignments[i].instructor_id)
        /\ assignments[i].time_slot_id
            \in ById(d.instructors, assignments[i].instructor_id).preferred_time_slots})

MetricsOf(d, sessions, assignments, report, objective_breakdown) ==
    [sessions_required |-> Len(sessions),
     sessions_scheduled |-> Len(assignments),
     coverage_pct |->
        IF Len(sessions) # 0 THEN Pct(Len(assignments), Len(sessions)) ELSE 0,
     room_utilization_pct |->
        Bind(UtilizationCounted(d, sessions, assignments), LAMBDA counted :
            Bind(ProductSeq([r \in DOMAIN d.rooms |-> d.rooms[r].capacity]), LAMBDA denom :
                RoomUtilizationPct(d, sessions, assignments, counted, denom))),
     instructor_preference_pct |->
        IF Len(assignments) # 0
            THEN Pct(PreferenceHits(d, assignments), Len(assignments)) ELSE 0,
     hard_violations |->
        Cardinality({k \in DOMAIN report.issues : report.issues[k].level = "error"}),
     objective_breakdown |-> objective_breakdown]

build_metrics(d, assignments, report, objective_breakdown) ==
    Bind(expand_course_sessions(d.courses), LAMBDA sessions :
        MetricsOf(d, sessions, assignments, report, objective_breakdown))

----------------------------------------------------------------------------
(* solver.py: _build_result                                                *)

AssignmentLess(a, b) == SessionIdLess(a.session_id, b.session_id)

ScheduleResult(status, solver_name, assignments, notes, d, report, objective_breakdown) ==
    [status |-> status,
     solver |-> solver_name,
     objective_value |-> objective_breakdown.total,
     assignments |-> StableSort(assignments, AssignmentLess),
     metrics |-> build_metrics(d, assignments, report, objective_breakdown),
     notes |-> notes]

\* The (ScheduleResult, ValidationReport) pair _build_result returns.
build_result(status, solver_name, assignments, notes, d) ==
    Bind(validate_schedule(d, assignments), LAMBDA report :
        Bind(compute_objective_breakdown(d, assignments, d.options.objective_weights),
             LAMBDA objective_breakdown :
                [result |-> ScheduleResult(status, solver_name, assignments, notes, d,
                                           report, objective_breakdown),
                 validation |-> report]))

----------------------------------------------------------------------------
(* solver.py: _solve_with_cp_sat                                           *)

unknown_instructors(d) ==
    {d.courses[i].instructor_id : i \in
        {j \in DOMAIN d.courses : ~HasId(d.instructors, d.courses[j].instructor_id)}}

\* The two `continue` tests of the loop over rooms.
CpRoomTooSmallOrFull(room, session) ==
    \/ room.capacity <= session.enrollment
    \/ ~(session.required_features \subseteq room.features)

CpRoomSkipped(room, session) ==
    \/ room.capacity < session.enrollment
    \/ ~(session.required_features \subseteq room.features)

\* The decision variables x, in creation order: one per (session, room, slot)
\* the three nested loops let through.  rooms is list(data.rooms), so a
\* repeated room or slot id creates a second variable under the same key.
CpVarsOfSession(d, session) ==
    LET instructor == ById(d.instructors, session.instructor_id)
        instructor_available == instructor.available_time_slots
        course_allowed_slots == session.allowed_time_slots
        rooms == d.rooms
        slots == SortedSlots(d)
        okSlots == {k \in DOMAIN slots :
                        /\ (instructor_available = {} \/ slots[k].id \in instructor_available)
                        /\ (course_allowed_slots = {} \/ slots[k].id \in course_allowed_slots)}
        picked == PickSeq(slots, okSlots, 1)
        perRoom(r) ==
            IF CpRoomSkipped(rooms[r], session)
            THEN <<>>
            ELSE [k \in DOMAIN picked |->
                    [session_id |-> session.session_id,
                     course_id |-> session.course_id,
                     instructor_id |-> session.instructor_id,
                     room_id |-> rooms[r].id,
                     time_slot_id |-> picked[k].id,
                     day |-> picked[k].day,
                     cluster_tag |-> session.cluster_tag,
                     instructor_pref |-> picked[k].id \in instructor.preferred_time_slots,
                     utilization |-> Utilization(session.enrollment, rooms[r].capacity),
                     priority_term |->
                        IF picked[k].id \in session.preferred_time_slots
                            THEN session.priority * 20 ELSE 0]]
    IN FlattenSeq([r \in DOMAIN rooms |-> perRoom(r)])

CpVars(d) ==
    LET sessions == expand_course_sessions(d.courses)
    IN FlattenSeq([i \in DOMAIN sessions |-> CpVarsOfSession(d, sessions[i])])

VarKey(v) == <<v.session_id, v.course_id, v.instructor_id, v.room_id, v.time_slot_id>>

\* vars_by_session[session_id]
VarsBySession(x, sid) == {k \in DOMAIN x : x[k].session_id = sid}

\* The first session, in expansion order, with no variable.
SessionsWithoutVars(x, sessions) ==
    {i \in DOMAIN sessions : VarsBySession(x, sessions[i].session_id) = {}}

\* The at-most constraints of the model on the set T of true variables:
\* room/slot, instructor/slot, course/day and instructor/day.
AtMostConstraints(d, x, T) ==
    /\ \A a \in T : \A b \in T :
            a # b => /\ <<x[a].room_id, x[a].time_slot_id>> # <<x[b].room_id, x[b].time_slot_id>>
                     /\ <<x[a].instructor_id, x[a].time_slot_id>>
                            # <<x[b].instructor_id, x[b].time_slot_id>>
    /\ \A c \in DOMAIN d.courses :
            (d.courses[c].avoid_same_day_sessions /\ d.courses[c].sessions_per_week > 1)
            => \A a \in T : \A b \in T :
                    (a # b /\ x[a].course_id = d.courses[c].id /\ x[b].course_id = d.courses[c].id)
                    => x[a].day # x[b].day
    /\ \A i \in DOMAIN d.instructors :
            d.instructors[i].max_sessions_per_day # 0
            => \A day \in SessionDays(d) :
                    Cardinality({a \in T : x[a].instructor_id = d.instructors[i].id
                                            /\ x[a].day = day})
                        <= d.instructors[i].max_sessions_per_day

\* The truth assignments that set exactly one variable of every session id
\* and satisfy the at-most constraints, built one session id at a time.
RECURSIVE CpExtend(_, _, _, _)
CpExtend(d, x, sids, partials) ==
    IF sids = <<>> THEN partials
    ELSE CpExtend(d, x, Tail(sids),
            UNION {{T \cup {k} : k \in {j \in VarsBySession(x, Head(sids)) :
                                            AtMostConstraints(d, x, T \cup {j})}}
                    : T \in partials})

CpSolutions(d, x) ==
    LET sessions == expand_course_sessions(d.courses)
        sids == DistinctInOrder([i \in DOMAIN sessions |-> sessions[i].session_id])
    IN CpExtend(d, x, sids, {{}})

\* The objective the model maximizes, at the truth assignment T.  A
\* cluster/day indicator is true exactly when one of its variables is.
CpObjective(d, x, T) ==
    LET weights == d.options.objective_weights
        sessions == expand_course_sessions(d.courses)
        cluster_session_count(tag) ==
            Cardinality({i \in DOMAIN sessions : sessions[i].cluster_tag = tag})
        used == {<<x[a].cluster_tag, x[a].day>> : a \in
                    {b \in T : /\ x[b].cluster_tag # ""
                               /\ cluster_session_count(x[b].cluster_tag) > 1}}
    IN SumSet(T, [a \in T |->
            100 * weights.instructor_preference * (IF x[a].instructor_pref THEN 1 ELSE 0)
            + weights.room_efficiency * x[a].utilization
            + weights.course_priority * x[a].priority_term])
       - 100 * weights.cluster_compactness * Cardinality(used)

\* Decoding: x is a dict, so of the variables sharing a key only the last
\* created is read, at the position of the first.
CpDecode(x, T) ==
    LET firsts == {k \in DOMAIN x : \A j \in 1..(k - 1) : VarKey(x[j]) # VarKey(x[k])}
        last(k) == CHOOSE j \in DOMAIN x :
                        /\ VarKey(x[j]) = VarKey(x[k])
                        /\ \A i \in DOMAIN x : VarKey(x[i]) = VarKey(x[k]) => i <= j
        emitted == PickSeq(x, {k \in firsts : last(k) \in T}, 1)
    IN [k \in DOMAIN emitted |->
            [session_id |-> emitted[k].session_id,
             course_id |-> emitted[k].course_id,
             instructor_id |-> emitted[k].instructor_id,
             room_id |-> emitted[k].room_id,
             time_slot_id |-> emitted[k].time_slot_id]]

\* The engine (OR-tools CP-SAT, outside the repository) by its contract: it
\* ends its search ("completed": optimal with a maximizing solution, or
\* infeasible when there is none) or reaches the time limit first ("limit":
\* feasible with any solution found so far, or unknown).
EngineOutcomes(d, x) ==
    LET solutions == CpSolutions(d, x)
        value == [T \in solutions |-> CpObjective(d, x, T)]
        best == {T \in solutions : \A U \in solutions : value[U] <= value[T]}
    IN IF solutions = {}
       THEN {[status |-> "infeasible", engine |-> "completed", assignments |-> <<>>],
             [status |-> "unknown", engine |-> "limit", assignments |-> <<>>]}
       ELSE {[status |-> "optimal", engine |-> "completed", assignments |-> CpDecode(x, T)]
                : T \in best}
            \cup {[status |-> "feasible", engine |-> "limit", assignments |-> CpDecode(x, T)]
                : T \in solutions}
            \cup {[status |-> "unknown", engine |-> "limit", assignments |-> <<>>]}

UnknownInstructorsReturnInfeasible(d) ==
    {[status |-> "infeasible", engine |-> "not_invoked", assignments |-> <<>>,
      notes |-> <<Note("unknown_instructors", unknown_instructors(d))>>]}

\* The return taken when unknown_instructors is not empty.
UnknownInstructorsReturn(d) ==
    {[status |-> "model_invalid", engine |-> "not_invoked", assignments |-> <<>>,
      notes |-> <<Note("unknown_instructors", unknown_instructors(d))>>]}

\* Every (status, assignments, notes) _solve_with_cp_sat can return on d.
solve_with_cp_sat(d) ==
    IF unknown_instructors(d) # {}
    THEN UnknownInstructorsReturn(d)
    ELSE LET sessions == expand_course_sessions(d.courses)
             x == CpVars(d)
             empty == SessionsWithoutVars(x, sessions)
         IN IF empty # {}
            THEN LET first == CHOOSE i \in empty : \A j \in empty : i <= j
                 IN {[status |-> "infeasible", engine |-> "not_invoked",
                      assignments |-> <<>>,
                      notes |-> <<Note("no_feasible_assignment", sessions[first].session_id)>>]}
            ELSE {[status |-> o.status, engine |-> o.engine,
                   assignments |-> o.assignments, notes |-> <<>>]
                    : o \in EngineOutcomes(d, x)}

----------------------------------------------------------------------------
(* Inputs of the model.                                                    *)

\* Total number of sessions (sum of sessions_per_week) of an input.
MaxSessions == 2

DefaultWeights ==
    [instructor_preference |-> 5, room_efficiency |-> 3,
     cluster_compactness |-> 4, course_priority |-> 2]

TimeSlot(id, day, order) == [id |-> id, day |-> day, order |-> order]

Room(id, capacity, features) == [id |-> id, capacity |-> capacity, features |-> features]

Instructor(id, available, preferred, max_per_day) ==
    [id |-> id, available_time_slots |-> available,
     preferred_time_slots |-> preferred, max_sessions_per_day |-> max_per_day]

TimeSlotLists ==
    {<<TimeSlot("T1", "Mon", 0)>>,
     <<TimeSlot("T2", "Mon", 1), TimeSlot("T1", "Mon", 0)>>,
     <<TimeSlot("T1", "Mon", 0), TimeSlot("T2", "Tue", 1), TimeSlot("T3", "Wed", 2)>>}

RoomLists ==
    {<<Room("R1", 30, {})>>,
     <<Room("R2", 30, {}), Room("R1", 60, {"lab"})>>,
     <<Room("R1", 60, {"lab"}), Room("R1", 30, {})>>,
     <<Room("R2", 30, {}), Room("R1", 30, {})>>}

InstructorLists ==
    {<<Instructor("I1", {}, {}, 0)>>,
     <<Instructor("I1", {}, {"T2"}, 1), Instructor("I2", {"T1", "T2"}, {}, 0)>>}

\* Course records without sessions_per_week.
CourseKinds ==
    {[id |-> "C1", instructor_id |-> "I1", enrollment |-> 30,
      required_features |-> {}, preferred_time_slots |-> {},
      allowed_time_slots |-> {}, cluster_tag |-> "", priority |-> 5,
      avoid_same_day_sessions |-> TRUE],
     [id |-> "C2", instructor_id |-> "I1", enrollment |-> 30,
      required_features |-> {}, preferred_time_slots |-> {"T1"},
      allowed_time_slots |-> {"T1"}, cluster_tag |-> "K", priority |-> 5,
      avoid_same_day_sessions |-> FALSE],
     [id |-> "C3", instructor_id |-> "I1", enrollment |-> 60,
      required_features |-> {"lab"}, preferred_time_slots |-> {},
      allowed_time_slots |-> {}, cluster_tag |-> "K", priority |-> 8,
      avoid_same_day_sessions |-> TRUE],
     [id |-> "C1", instructor_id |-> "I2", enrollment |-> 60,
      required_features |-> {}, preferred_time_slots |-> {"T2"},
      allowed_time_slots |-> {}, cluster_tag |-> "", priority |-> 5,
      avoid_same_day_sessions |-> TRUE]}

Course(kind, sessions_per_week) ==
    [id |-> kind.id, instructor_id |-> kind.instructor_id,
     enrollment |-> kind.enrollment, sessions_per_week |-> sessions_per_week,
     required_features |-> kind.required_features,
     preferred_time_slots |-> kind.preferred_time_slots,
     allowed_time_slots |-> kind.allowed_time_slots,
     cluster_tag |-> kind.cluster_tag, priority |-> kind.priority,
     avoid_same_day_sessions |-> kind.avoid_same_day_sessions]

Courses == {Course(kind, n) : kind \in CourseKinds, n \in 1..MaxSessions}

\* Every course list of at most budget sessions in total.
RECURSIVE CourseListsWithin(_)
CourseListsWithin(budget) ==
    {<<>>} \cup
    UNION {{<<c>> \o rest : rest \in CourseListsWithin(budget - c.sessions_per_week)}
            : c \in {k \in Courses : k.sessions_per_week <= budget}}

CourseLists == CourseListsWithin(MaxSessions)

SolverOptions(enable_fallback, weights) ==
    [enable_fallback |-> enable_fallback, objective_weights |-> weights]

SchedulingInput(courses, instructors, rooms, time_slots, options) ==
    [courses |-> courses, instructors |-> instructors, rooms |-> rooms,
     time_slots |-> time_slots, options |-> options]

SolverModes == {"auto", "cp_sat", "heuristic"}

----------------------------------------------------------------------------
(* solver.py: solve_schedule, as the steps of one request.                 *)

CpIdle == [status |-> "none", engine |-> "not_invoked", assignments |-> <<>>, notes |-> <<>>]

HeurIdle ==
    [sorted_sessions |-> <<>>, feasible_candidates |-> <<>>, next |-> 0,
     assignments |-> <<>>, unscheduled |-> <<>>, occupied_room_slot |-> {},
     occupied_instructor_slot |-> {}, course_days_used |-> {},
     instructor_day_count |-> <<>>, cluster_days_used |-> {}]

NoResult == [status |-> "none"]

NoValidation == [valid |-> FALSE, issues |-> <<>>]

CmpIdle == [pc |-> "idle", scenarios |-> <<>>, next |-> 0,
            scenario_results |-> <<>>, best_scenario |-> "None"]

Init ==
    /\ \E courses \in CourseLists, instructors \in InstructorLists,
          rooms \in RoomLists, time_slots \in TimeSlotLists,
          enable_fallback \in BOOLEAN :
            data = SchedulingInput(courses, instructors, rooms, time_slots,
                                   SolverOptions(enable_fallback, DefaultWeights))
    /\ solver_mode \in SolverModes
    /\ pc = "start"
    /\ cp = CpIdle
    /\ heur = HeurIdle
    /\ calls = <<>>
    /\ result = NoResult
    /\ validation = NoValidation
    /\ cmp = CmpIdle
    /\ payload_assignments = <<>>

ExactSucceededOrUnknown(status) == status \in {"optimal", "feasible", "unknown"}

ExactSucceeded(status) == status \in {"optimal", "feasible"}

\* solver_mode == "heuristic": solve_with_heuristic is entered.
HeuristicMode ==
    /\ pc = "start"
    /\ solver_mode = "heuristic"
    /\ heur' = HeuristicStart(data)
    /\ calls' = Append(calls, "heuristic")
    /\ pc' = "heuristic"
    /\ UNCHANGED <<data, solver_mode, cp, result, validation, cmp, payload_assignments>>

\* cp_status, cp_runtime, cp_assignments, cp_notes = _solve_with_cp_sat(data)
SolveWithCpSat ==
    /\ pc = "start"
    /\ solver_mode # "heuristic"
    /\ \E out \in solve_with_cp_sat(data) : cp' = out
    /\ calls' = Append(calls, "cp_sat")
    /\ pc' = "cp_returned"
    /\ UNCHANGED <<data, solver_mode, heur, result, validation, cmp, payload_assignments>>

FallbackWithoutOption ==
    /\ ~ExactSucceeded(cp.status)
    /\ solver_mode = "auto"

FallbackInAnyMode ==
    /\ ~ExactSucceeded(cp.status)
    /\ data.options.enable_fallback

FallbackWanted ==
    /\ ~ExactSucceeded(cp.status)
    /\ solver_mode = "auto"
    /\ data.options.enable_fallback

\* The two returns of the exact result (lines 260-268 and 284-291).
ReturnExact ==
    /\ pc = "cp_returned"
    /\ ~FallbackWanted
    /\ LET r == build_result(cp.status, "cp_sat", cp.assignments, cp.notes, data)
       IN /\ result' = r.result
          /\ validation' = r.validation
    /\ pc' = "done"
    /\ UNCHANGED <<data, solver_mode, cp, heur, calls, cmp, payload_assignments>>

\* The fallback branch enters solve_with_heuristic.
TriggerFallback ==
    /\ pc = "cp_returned"
    /\ FallbackWanted
    /\ heur' = HeuristicStart(data)
    /\ calls' = Append(calls, "heuristic")
    /\ pc' = "heuristic"
    /\ UNCHANGED <<data, solver_mode, cp, result, validation, cmp, payload_assignments>>

\* One pass of the heuristic's loop body.
HeuristicIterate ==
    /\ pc = "heuristic"
    /\ ~HeuristicLoopDone(heur)
    /\ heur' = HeuristicStep(data, heur)
    /\ UNCHANGED <<data, solver_mode, pc, cp, calls, result, validation, cmp, payload_assignments>>

\* The notes of the result built from the heuristic's output.
HeuristicResultNotes(out) ==
    IF calls = <<"cp_sat", "heuristic">>
    THEN <<Note("cp_status_fallback", cp.status)>> \o cp.notes \o out.notes
    ELSE out.notes

\* solve_with_heuristic returns and its result is built.
ReturnHeuristic ==
    /\ pc = "heuristic"
    /\ HeuristicLoopDone(heur)
    /\ \E out \in {HeuristicSolveOutput(data, heur)} :
        \E r \in {build_result(out.status, "heuristic", out.assignments,
                               HeuristicResultNotes(out), data)} :
            /\ result' = r.result
            /\ validation' = r.validation
    /\ pc' = "done"
    /\ UNCHANGED <<data, solver_mode, cp, heur, calls, cmp, payload_assignments>>

Next ==
    \/ HeuristicMode
    \/ SolveWithCpSat
    \/ ReturnExact
    \/ TriggerFallback
    \/ HeuristicIterate
    \/ ReturnHeuristic

Spec == Init /\ [][Next]_vars

\* solve_with_heuristic is sequential code: a loop that can take its next
\* pass takes it, and a loop that has ended returns.
SpecFair == Spec /\ WF_vars(HeuristicIterate) /\ WF_vars(ReturnHeuristic)

\* solve_schedule as a function of its two arguments: the set of
\* (ScheduleResult, ValidationReport) pairs one call can return, one per
\* outcome of the exact path.
HeuristicReturn(d, prefix) ==
    Bind(solve_with_heuristic(d), LAMBDA out :
        build_result(out.status, "heuristic", out.assignments, prefix \o out.notes, d))

ExactReturn(d, mode, out) ==
    IF /\ ~ExactSucceeded(out.status)
       /\ mode = "auto"
       /\ d.options.enable_fallback
    THEN HeuristicReturn(d, <<Note("cp_status_fallback", out.status)>> \o out.notes)
    ELSE build_result(out.status, "cp_sat", out.assignments, out.notes, d)

solve_schedule(d, mode) ==
    IF mode = "heuristic"
    THEN {HeuristicReturn(d, <<>>)}
    ELSE {ExactReturn(d, mode, out) : out \in solve_with_cp_sat(d)}

----------------------------------------------------------------------------
(* api/main.py: compare, as the steps of one request.  cmp.pc is "loop"     *)
(* between two scenarios, "solving" inside solve_schedule and "ranked" once *)
(* the response is built; best_scenario None is "None".                     *)

MaxScenarios == 2

HeavyWeights ==
    [instructor_preference |-> 50, room_efficiency |-> 30,
     cluster_compactness |-> 40, course_priority |-> 20]

ZeroWeights ==
    [instructor_preference |-> 0, room_efficiency |-> 0,
     cluster_compactness |-> 0, course_priority |-> 0]

ScenarioConfig(name, options, mode) ==
    [name |-> name, options |-> options, solver_mode |-> mode]

ScenarioConfigs ==
    {ScenarioConfig("A", SolverOptions(TRUE, DefaultWeights), "auto"),
     ScenarioConfig("B", SolverOptions(FALSE, HeavyWeights), "heuristic"),
     ScenarioConfig("B", SolverOptions(FALSE, ZeroWeights), "cp_sat"),
     ScenarioConfig("C", SolverOptions(FALSE, DefaultWeights), "cp_sat")}

ScenarioLists == UNION {[1..n -> ScenarioConfigs] : n \in 0..MaxScenarios}

CompareTimeSlotLists ==
    {<<TimeSlot("T1", "Mon", 0)>>,
     <<TimeSlot("T2", "Mon", 1), TimeSlot("T1", "Mon", 0)>>}

CompareInstructorLists == {<<Instructor("I1", {}, {}, 0)>>}

ScenarioResult(name, res, report) == [name |-> name, result |-> res, validation |-> report]

\* The sort key of a scenario result and the order of two keys.
RankKey(item) ==
    <<item.result.metrics.hard_violations,
      -item.result.objective_value,
      -item.result.metrics.coverage_pct>>

KeyLessObjectiveFirst(k1, k2) ==
    \/ k1[2] < k2[2]
    \/ k1[2] = k2[2] /\ k1[1] < k2[1]
    \/ k1[2] = k2[2] /\ k1[1] = k2[1] /\ k1[3] < k2[3]

KeyLess(k1, k2) ==
    \/ k1[1] < k2[1]
    \/ k1[1] = k2[1] /\ k1[2] < k2[2]
    \/ k1[1] = k2[1] /\ k1[2] = k2[2] /\ k1[3] < k2[3]

RankLess(item1, item2) == KeyLess(RankKey(item1), RankKey(item2))

best_scenario(scenario_results) ==
    IF scenario_results # <<>>
    THEN StableSort(scenario_results, RankLess)[1].name
    ELSE "None"

InitCompare ==
    /\ \E courses \in CourseLists, instructors \in CompareInstructorLists,
          rooms \in RoomLists, time_slots \in CompareTimeSlotLists :
            data = SchedulingInput(courses, instructors, rooms, time_slots,
                                   SolverOptions(TRUE, DefaultWeights))
    /\ solver_mode = "auto"
    /\ pc = "idle"
    /\ cp = CpIdle
    /\ heur = HeurIdle
    /\ calls = <<>>
    /\ result = NoResult
    /\ validation = NoValidation
    /\ \E scenarios \in ScenarioLists :
            cmp = [pc |-> "loop", data |-> data, scenarios |-> scenarios, next |-> 1,
                   scenario_results |-> <<>>, best_scenario |-> "None"]
    /\ payload_assignments = <<>>

\* The loop body without the deep copy: the scenario's options are assigned
\* on the payload's data itself.
CompareSolveScenarioShared ==
    /\ cmp.pc = "loop"
    /\ cmp.next <= Len(cmp.scenarios)
    /\ data' = [cmp.data EXCEPT !.options = cmp.scenarios[cmp.next].options]
    /\ solver_mode' = cmp.scenarios[cmp.next].solver_mode
    /\ pc' = "start"
    /\ cp' = CpIdle
    /\ heur' = HeurIdle
    /\ calls' = <<>>
    /\ result' = NoResult
    /\ validation' = NoValidation
    /\ cmp' = [cmp EXCEPT !.pc = "solving", !.data = data']
    /\ UNCHANGED payload_assignments

\* The loop takes the next scenario: the copy of the payload's data gets the
\* scenario's options and solve_schedule is called with its solver_mode.
CompareSolveScenario ==
    /\ cmp.pc = "loop"
    /\ cmp.next <= Len(cmp.scenarios)
    /\ data' = [cmp.data EXCEPT !.options = cmp.scenarios[cmp.next].options]
    /\ solver_mode' = cmp.scenarios[cmp.next].solver_mode
    /\ pc' = "start"
    /\ cp' = CpIdle
    /\ heur' = HeurIdle
    /\ calls' = <<>>
    /\ result' = NoResult
    /\ validation' = NoValidation
    /\ cmp' = [cmp EXCEPT !.pc = "solving"]
    /\ UNCHANGED payload_assignments

\* solve_schedule has returned: scenario_results.append(ScenarioResult(...))
CompareAppendResult ==
    /\ cmp.pc = "solving"
    /\ pc = "done"
    /\ cmp' = [cmp EXCEPT
                !.pc = "loop",
                !.next = @ + 1,
                !.scenario_results =
                    Append(@, ScenarioResult(cmp.scenarios[cmp.next].name,
                                             result, validation))]
    /\ pc' = "idle"
    /\ UNCHANGED <<data, solver_mode, cp, heur, calls, result, validation,
                    payload_assignments>>

\* After the loop: the ranking and the response.
CompareRank ==
    /\ cmp.pc = "loop"
    /\ cmp.next > Len(cmp.scenarios)
    /\ cmp' = [cmp EXCEPT !.pc = "ranked",
                          !.best_scenario = best_scenario(cmp.scenario_results)]
    /\ UNCHANGED <<data, solver_mode, pc, cp, heur, calls, result, validation,
                    payload_assignments>>

NextCompare ==
    \/ CompareSolveScenario
    \/ HeuristicMode
    \/ SolveWithCpSat
    \/ ReturnExact
    \/ TriggerFallback
    \/ HeuristicIterate
    \/ ReturnHeuristic
    \/ CompareAppendResult
    \/ CompareRank

SpecCompare == InitCompare /\ [][NextCompare]_vars

----------------------------------------------------------------------------
(* api/main.py: validate, one request: validate_schedule on the payload's  *)
(* data and assignment list.                                               *)

\* Length of the payload's assignment list.
MaxAssignments == 3

CourseKind(id, instructor_id) ==
    CHOOSE kind \in CourseKinds : kind.id = id /\ kind.instructor_id = instructor_id

\* The inputs of the validate requests: a course of two sessions that avoids
\* same-day sessions, with a capped instructor and two slots on one day; two
\* courses of one instructor; a course whose instructor is not listed; two
\* courses of one id.
ValidateInputs ==
    {SchedulingInput(<<Course(CourseKind("C1", "I1"), 2)>>,
                     <<Instructor("I1", {}, {"T2"}, 1), Instructor("I2", {"T1", "T2"}, {}, 0)>>,
                     <<Room("R2", 30, {}), Room("R1", 60, {"lab"})>>,
                     <<TimeSlot("T2", "Mon", 1), TimeSlot("T1", "Mon", 0)>>,
                     SolverOptions(TRUE, DefaultWeights)),
     SchedulingInput(<<Course(CourseKind("C1", "I1"), 2), Course(CourseKind("C2", "I1"), 1)>>,
                     <<Instructor("I1", {}, {}, 0)>>,
                     <<Room("R2", 30, {}), Room("R1", 60, {"lab"})>>,
                     <<TimeSlot("T1", "Mon", 0), TimeSlot("T2", "Tue", 1), TimeSlot("T3", "Wed", 2)>>,
                     SolverOptions(TRUE, DefaultWeights)),
     SchedulingInput(<<Course(CourseKind("C1", "I2"), 1), Course(CourseKind("C3", "I1"), 1)>>,
                     <<Instructor("I1", {}, {}, 0)>>,
                     <<Room("R2", 30, {}), Room("R1", 60, {"lab"})>>,
                     <<TimeSlot("T2", "Mon", 1), TimeSlot("T1", "Mon", 0)>>,
                     SolverOptions(TRUE, DefaultWeights)),
     SchedulingInput(<<Course(CourseKind("C1", "I1"), 1), Course(CourseKind("C1", "I2"), 1)>>,
                     <<Instructor("I1", {}, {"T2"}, 1), Instructor("I2", {"T1", "T2"}, {}, 0)>>,
                     <<Room("R1", 60, {"lab"}), Room("R1", 30, {})>>,
                     <<TimeSlot("T2", "Mon", 1), TimeSlot("T1", "Mon", 0)>>,
                     SolverOptions(TRUE, DefaultWeights))}

\* The (room id, slot id) pairs of the payload's records; R9 and T9 name no
\* room and no slot of any input.
PayloadPlaces ==
    {<<"R1", "T1">>, <<"R1", "T2">>, <<"R2", "T1">>,
     <<"R1", "T9">>, <<"R9", "T1">>, <<"R9", "T9">>}

\* The records of a payload for input d: a session of d or the unknown
\* session C9::S1, with either instructor id.
PayloadRecords(d) ==
    {[session_id |-> session_id, course_id |-> session_id[1],
      instructor_id |-> instructor_id, room_id |-> place[1], time_slot_id |-> place[2]] :
        session_id \in SessionIds(expand_course_sessions(d.courses)) \cup {<<"C9", 1>>},
        instructor_id \in {"I1", "I2"},
        place \in PayloadPlaces}

PayloadLists(d) == UNION {[1..n -> PayloadRecords(d)] : n \in 0..MaxAssignments}

InitValidate ==
    /\ data \in ValidateInputs
    /\ payload_assignments \in PayloadLists(data)
    /\ solver_mode = "auto"
    /\ pc = "request"
    /\ cp = CpIdle
    /\ heur = HeurIdle
    /\ calls = <<>>
    /\ result = NoResult
    /\ validation = NoValidation
    /\ cmp = CmpIdle

\* report = validate_schedule(payload.data, payload.assignments)
ValidateRequest ==
    /\ pc = "request"
    /\ validation' = validate_schedule(data, payload_assignments)
    /\ pc' = "validated"
    /\ UNCHANGED <<data, solver_mode, cp, heur, calls, result, cmp, payload_assignments>>

NextValidate == ValidateRequest

SpecValidate == InitValidate /\ [][NextValidate]_vars

----------------------------------------------------------------------------
(* Properties of the solving paths.                                        *)

SolverConstraintCodes ==
    {"ROOM_TIME_CONFLICT", "INSTRUCTOR_TIME_CONFLICT",
     "ROOM_CAPACITY_VIOLATION", "ROOM_FEATURE_VIOLATION"}

\* C1: whenever solve_schedule has returned the list of a solving path (the
\* exact path with optimal/feasible, or the heuristic), validate_schedule on
\* that list and the same input reports no room/time conflict, no
\* instructor/time conflict, no capacity and no feature violation.
C1_SolverOutputPassesOwnConstraints ==
    (pc = "done" /\ result.status \in {"optimal", "feasible", "fallback", "fallback_partial"})
    => IssueCodes(validation) \cap SolverConstraintCodes = {}

\* C2: in 'auto' mode the exact path is the first call; with an exact status
\* of optimal or feasible the result has that status, solver cp_sat, and the
\* heuristic was not called; otherwise with enable_fallback the heuristic is
\* the second call and the result has its status and assignments and solver
\* heuristic; otherwise the result has the exact status, no assignment and
\* solver cp_sat.
C2_AutoModeOrder ==
    solver_mode = "auto" =>
        /\ (calls # <<>> => calls[1] = "cp_sat")
        /\ pc = "done" =>
            IF cp.status \in {"optimal", "feasible"}
            THEN /\ calls = <<"cp_sat">>
                 /\ result.status = cp.status
                 /\ result.solver = "cp_sat"
            ELSE IF data.options.enable_fallback
            THEN /\ calls = <<"cp_sat", "heuristic">>
                 /\ result.status =
                        (IF heur.unscheduled # <<>> THEN "fallback_partial" ELSE "fallback")
                 /\ result.assignments = StableSort(heur.assignments, AssignmentLess)
                 /\ result.solver = "heuristic"
            ELSE /\ calls = <<"cp_sat">>
                 /\ result.status = cp.status
                 /\ result.assignments = <<>>
                 /\ result.solver = "cp_sat"

C2_Witness ==
    /\ pc = "done"
    /\ solver_mode = "auto"
    /\ cp.status = "infeasible"
    /\ data.options.enable_fallback
    /\ calls = <<"cp_sat", "heuristic">>
    /\ result.solver = "heuristic"
    /\ Len(result.assignments) = 1

\* C3: 'auto' mode with enable_fallback returns one of optimal, feasible,
\* fallback, fallback_partial.
C3_AutoFallbackStatuses ==
    (pc = "done" /\ solver_mode = "auto" /\ data.options.enable_fallback)
    => result.status \in {"optimal", "feasible", "fallback", "fallback_partial"}

C3_Witness ==
    /\ pc = "done"
    /\ solver_mode = "auto"
    /\ data.options.enable_fallback
    /\ cp.status = "model_invalid"
    /\ result.status = "fallback_partial"

\* C4: in 'cp_sat' mode the heuristic is never called, and the result has
\* the exact path's status, whatever it is, and solver cp_sat, with
\* enable_fallback true or false.
C4_ExactModeOnly ==
    solver_mode = "cp_sat" =>
        /\ \A i \in DOMAIN calls : calls[i] # "heuristic"
        /\ pc = "done" =>
            /\ calls = <<"cp_sat">>
            /\ result.status = cp.status
            /\ result.solver = "cp_sat"

C4_Witness ==
    /\ pc = "done"
    /\ solver_mode = "cp_sat"
    /\ data.options.enable_fallback
    /\ cp.status = "unknown"
    /\ result.status = "unknown"

\* The (room id, slot id) pairs a course passes the static tests on: room
\* capacity and features, instructor availability, allowed slots.
StaticPairs(d, course) ==
    {<<d.rooms[r].id, d.time_slots[t].id>> : r \in
        {q \in DOMAIN d.rooms :
            /\ d.rooms[q].capacity >= course.enrollment
            /\ course.required_features \subseteq d.rooms[q].features},
      t \in
        {u \in DOMAIN d.time_slots :
            /\ \A i \in DOMAIN d.instructors :
                    d.instructors[i].id = course.instructor_id
                    => \/ d.instructors[i].available_time_slots = {}
                       \/ d.time_slots[u].id \in d.instructors[i].available_time_slots
            /\ \/ course.allowed_time_slots = {}
               \/ d.time_slots[u].id \in course.allowed_time_slots}}

\* Two single-session courses of known instructors with one and the same
\* (room, slot) pair as their only option; no id names two courses or two
\* rooms.
OverloadScenario(d) ==
    /\ Len(d.courses) = 2
    /\ d.courses[1].id # d.courses[2].id
    /\ \A r, q \in DOMAIN d.rooms : r # q => d.rooms[r].id # d.rooms[q].id
    /\ \A c \in 1..2 :
        /\ d.courses[c].sessions_per_week = 1
        /\ \E i \in DOMAIN d.instructors : d.instructors[i].id = d.courses[c].instructor_id
    /\ Cardinality(StaticPairs(d, d.courses[1])) = 1
    /\ StaticPairs(d, d.courses[1]) = StaticPairs(d, d.courses[2])

TwoSessionScenario(d) ==
    /\ Len(d.courses) = 1
    /\ d.courses[1].sessions_per_week = 2
    /\ d.courses[1].enrollment = 30
    /\ d.courses[1].avoid_same_day_sessions
    /\ d.courses[1].required_features = {}
    /\ d.courses[1].allowed_time_slots = {}
    /\ d.courses[1].instructor_id = "I1"
    /\ \E i \in DOMAIN d.instructors : d.instructors[i].id = "I1"
    /\ \A i \in DOMAIN d.instructors :
            d.instructors[i].id = "I1" => d.instructors[i].available_time_slots = {}
    /\ Len(d.rooms) = 1
    /\ d.rooms[1].capacity = 30
    /\ Len(d.time_slots) = 3
    /\ \A t, u \in DOMAIN d.time_slots : t # u => d.time_slots[t].day # d.time_slots[u].day

DayOfSlot(d, slot_id) ==
    (CHOOSE t \in Range(d.time_slots) : t.id = slot_id).day

\* C6: in that scenario the exact path hands a model to the engine, and
\* when the engine ends its search the path returns optimal with exactly 2
\* assignments on 2 distinct days, on which validate_schedule reports valid.
C6_TwoSessionScenario ==
    (TwoSessionScenario(data) /\ calls # <<>> /\ calls[1] = "cp_sat") =>
        /\ cp.engine # "not_invoked"
        /\ cp.engine = "completed" =>
            /\ cp.status = "optimal"
            /\ Len(cp.assignments) = 2
            /\ DayOfSlot(data, cp.assignments[1].time_slot_id)
                    # DayOfSlot(data, cp.assignments[2].time_slot_id)
            /\ validate_schedule(data, cp.assignments).valid

C6_Witness ==
    /\ TwoSessionScenario(data)
    /\ pc = "done"
    /\ solver_mode = "cp_sat"
    /\ cp.engine = "completed"
    /\ result.status = "optimal"
    /\ validation.valid

\* C7: expand_course_sessions returns sum(sessions_per_week) sessions: the
\* courses' in input order, and a course's by occurrence index from 1 up.
C7_ExpansionCountAndOrder ==
    LET courses == data.courses
        sessions == expand_course_sessions(courses)
        Before(c) == SumSeq([k \in 1..(c - 1) |-> courses[k].sessions_per_week])
    IN /\ Len(sessions) = SumSeq([k \in DOMAIN courses |-> courses[k].sessions_per_week])
       /\ \A c \in DOMAIN courses : \A index \in 1..courses[c].sessions_per_week :
            /\ sessions[Before(c) + index].course_id = courses[c].id
            /\ sessions[Before(c) + index].instructor_id = courses[c].instructor_id
            /\ sessions[Before(c) + index].session_id = <<courses[c].id, index>>

C7_Witness ==
    /\ Len(data.courses) = 1
    /\ data.courses[1].sessions_per_week = 2
    /\ pc = "heuristic"
    /\ Len(heur.sorted_sessions) = 2
    /\ heur.sorted_sessions[1].session_id = <<data.courses[1].id, 1>>
    /\ heur.sorted_sessions[2].session_id = <<data.courses[1].id, 2>>

\* C8: the session ids expand_course_sessions returns are pairwise distinct,
\* for every course list the Course model accepts.
C8_SessionIdsDistinct ==
    LET sessions == expand_course_sessions(data.courses)
    IN \A i, j \in DOMAIN sessions :
            i # j => sessions[i].session_id # sessions[j].session_id

\* C9: a returned result has sessions_scheduled <= sessions_required, and
\* coverage_pct 0 when sessions_scheduled is 0.
C9_CoverageBounds ==
    pc = "done" =>
        /\ result.metrics.sessions_scheduled <= result.metrics.sessions_required
        /\ result.metrics.sessions_scheduled = 0 => result.metrics.coverage_pct = 0

C9_Witness ==
    /\ pc = "done"
    /\ result.metrics.sessions_required = 2
    /\ result.metrics.sessions_scheduled = 0
    /\ result.metrics.coverage_pct = 0

----------------------------------------------------------------------------
(* Properties of compare.                                                  *)

\* Scenario result a is ahead of b: fewer hard violations, then a higher
\* objective value, then a higher coverage.
Ahead(a, b) ==
    \/ a.result.metrics.hard_violations < b.result.metrics.hard_violations
    \/ /\ a.result.metrics.hard_violations = b.result.metrics.hard_violations
       /\ a.result.objective_value > b.result.objective_value
    \/ /\ a.result.metrics.hard_violations = b.result.metrics.hard_violations
       /\ a.result.objective_value = b.result.objective_value
       /\ a.result.metrics.coverage_pct > b.result.metrics.coverage_pct

\* C10: compare's best_scenario is None for an empty scenario list; otherwise
\* it is the name of a submitted scenario, the one whose result no other
\* result is ahead of and that is ahead of every result before it in the
\* request (so equal keys go to the earlier scenario, and fewer hard
\* violations win whatever the objective values).
C10_BestScenarioIsFirstInOrder ==
    cmp.pc = "ranked" =>
        LET results == cmp.scenario_results
        IN /\ Len(results) = Len(cmp.scenarios)
           /\ \A i \in DOMAIN results : results[i].name = cmp.scenarios[i].name
           /\ cmp.scenarios = <<>> => cmp.best_scenario = "None"
           /\ cmp.scenarios # <<>> =>
                /\ \E k \in DOMAIN cmp.scenarios :
                        cmp.best_scenario = cmp.scenarios[k].name
                /\ \E i \in DOMAIN results :
                    /\ cmp.best_scenario = results[i].name
                    /\ \A j \in DOMAIN results :
                        /\ ~Ahead(results[j], results[i])
                        /\ j < i => Ahead(results[i], results[j])

\* The second scenario has fewer hard violations and a lower objective value
\* than the first, and is reported.
C10_Witness ==
    /\ cmp.pc = "ranked"
    /\ Len(cmp.scenario_results) = 2
    /\ cmp.scenario_results[2].result.metrics.hard_violations = 0
    /\ cmp.scenario_results[1].result.metrics.hard_violations > 0
    /\ cmp.scenario_results[2].result.objective_value
            < cmp.scenario_results[1].result.objective_value
    /\ cmp.scenario_results[1].name # cmp.scenario_results[2].name
    /\ cmp.best_scenario = cmp.scenario_results[2].name

\* C11: two solve_schedule runs with the same solver_mode on the same input
\* and options (two scenarios of one compare request with equal options and
\* mode) return the same status and the same assignment list.
C11_RerunSameResult ==
    cmp.pc = "ranked" =>
        \A i, j \in DOMAIN cmp.scenario_results :
            (/\ cmp.scenarios[i].options = cmp.scenarios[j].options
             /\ cmp.scenarios[i].solver_mode = cmp.scenarios[j].solver_mode)
            => /\ cmp.scenario_results[i].result.status
                    = cmp.scenario_results[j].result.status
               /\ cmp.scenario_results[i].result.assignments
                    = cmp.scenario_results[j].result.assignments

StatusAndAssignments(res) == [status |-> res.status, assignments |-> res.assignments]

\* The scenario input of the i-th scenario: the payload's data with the
\* scenario's options.
ScenarioInput(i) == [cmp.data EXCEPT !.options = cmp.scenarios[i].options]

ScenarioResultsAreOwn ==
    \A i \in DOMAIN cmp.scenario_results :
        StatusAndAssignments(cmp.scenario_results[i].result)
            \in {StatusAndAssignments(r.result) :
                    r \in solve_schedule(ScenarioInput(i), cmp.scenarios[i].solver_mode)}

\* C15: compare never changes the payload's base input, and the status and
\* assignments of every scenario result are a status and assignment list that
\* solve_schedule returns for the base input with that scenario's options and
\* that scenario's solver_mode alone, whatever the other scenarios and their
\* order (checked each time a result has been appended, cmp.pc = "loop").
C15_ScenariosIndependent ==
    /\ [][cmp.data' = cmp.data]_vars
    /\ [](cmp.pc = "loop" => ScenarioResultsAreOwn)

C15_Witness ==
    /\ cmp.pc = "ranked"
    /\ Len(cmp.scenario_results) = 2
    /\ cmp.scenarios[1].options # cmp.data.options
    /\ cmp.scenarios[2].options # cmp.scenarios[1].options
    /\ cmp.scenario_results[1].result.assignments # <<>>
    /\ cmp.scenario_results[1].result.assignments
            # cmp.scenario_results[2].result.assignments
    /\ ScenarioResultsAreOwn

----------------------------------------------------------------------------
(* Properties of validate_schedule.                                        *)

\* C12: the report of validate_schedule has valid = true exactly when none
\* of its issues has level error.
C12_ValidIffNoError ==
    pc = "validated" =>
        (validation.valid <=>
            \A k \in DOMAIN validation.issues : validation.issues[k].level # "error")

C12_Witness ==
    /\ pc = "validated"
    /\ Len(payload_assignments) = 2
    /\ validation.valid
    /\ validation.issues = <<>>

\* The day of the slot record a names (checked records of a valid list name
\* a slot of d).
RecordDay(d, a) == ById(d.time_slots, a.time_slot_id).day

\* No course with avoid_same_day_sessions has two sessions on one day.
AvoidSameDayRespected(d, assignments) ==
    \A c \in DOMAIN d.courses :
        (d.courses[c].avoid_same_day_sessions /\ d.courses[c].sessions_per_week > 1)
        => \A i, j \in DOMAIN assignments :
                (/\ i # j
                 /\ assignments[i].course_id = d.courses[c].id
                 /\ assignments[j].course_id = d.courses[c].id)
                => RecordDay(d, assignments[i]) # RecordDay(d, assignments[j])

\* No instructor with max_sessions_per_day has more sessions than the cap on
\* one day.
DayCapRespected(d, assignments) ==
    \A n \in DOMAIN d.instructors :
        d.instructors[n].max_sessions_per_day # 0
        => \A day \in SessionDays(d) :
                Cardinality({i \in DOMAIN assignments :
                                /\ assignments[i].instructor_id = d.instructors[n].id
                                /\ RecordDay(d, assignments[i]) = day})
                    <= d.instructors[n].max_sessions_per_day

\* C16: an assignment list that validate_schedule reports valid keeps the
\* sessions of every avoid_same_day_sessions course on different days and
\* every instructor within max_sessions_per_day on each day.
C16_ValidRespectsDayRules ==
    (pc = "validated" /\ validation.valid) =>
        /\ AvoidSameDayRespected(data, payload_assignments)
        /\ DayCapRespected(data, payload_assignments)

\* The checked records of the payload (known, non-duplicate sessions) and
\* the session a checked record names.
Checked == CheckedRecords(expand_course_sessions(data.courses), payload_assignments)

SessionOf(i) ==
    SessionById(expand_course_sessions(data.courses), payload_assignments[i].session_id)

IssuesWithCode(code) ==
    {k \in DOMAIN validation.issues : validation.issues[k].code = code}

\* The checked records whose session is taught by instructor_id and that
\* name the slot time_slot_id.
TaughtAt(instructor_id, time_slot_id) ==
    {i \in Checked : /\ SessionOf(i).instructor_id = instructor_id
                     /\ payload_assignments[i].time_slot_id = time_slot_id}

\* C17: when two or more checked sessions of one instructor (the session's
\* own instructor) are assigned to one slot, the report has an
\* INSTRUCTOR_TIME_CONFLICT issue for that instructor and slot that lists all
\* of them, whatever instructor_id the records carry.
C17_OwnInstructorConflictReported ==
    pc = "validated" =>
        \A i \in Checked :
            LET instructor_id == SessionOf(i).instructor_id
                time_slot_id == payload_assignments[i].time_slot_id
                colliding == TaughtAt(instructor_id, time_slot_id)
            IN Cardinality(colliding) > 1 =>
                \E k \in IssuesWithCode("INSTRUCTOR_TIME_CONFLICT") :
                    /\ validation.issues[k].details.instructor_id = instructor_id
                    /\ validation.issues[k].details.time_slot_id = time_slot_id
                    /\ {payload_assignments[j].session_id : j \in colliding}
                            \subseteq Range(validation.issues[k].details.session_ids)

\* The checked records that name room room_id and slot time_slot_id.
PlacedAt(room_id, time_slot_id) ==
    {i \in Checked : /\ payload_assignments[i].room_id = room_id
                     /\ payload_assignments[i].time_slot_id = time_slot_id}

\* The ROOM_TIME_CONFLICT issues of the report for one (room, slot) pair.
RoomConflictsFor(room_id, time_slot_id) ==
    {k \in IssuesWithCode("ROOM_TIME_CONFLICT") :
        /\ validation.issues[k].details.room_id = room_id
        /\ validation.issues[k].details.time_slot_id = time_slot_id}

\* C18: the report has exactly one ROOM_TIME_CONFLICT issue for every
\* (room, slot) pair that two or more checked sessions are assigned to, its
\* session_ids are exactly those sessions, and every ROOM_TIME_CONFLICT issue
\* is for such a pair.
C18_RoomConflictPerPair ==
    pc = "validated" =>
        /\ \A i \in Checked :
            LET room_id == payload_assignments[i].room_id
                time_slot_id == payload_assignments[i].time_slot_id
                users == PlacedAt(room_id, time_slot_id)
                found == RoomConflictsFor(room_id, time_slot_id)
            IN IF Cardinality(users) > 1
               THEN /\ Cardinality(found) = 1
                    /\ \A k \in found :
                        /\ Range(validation.issues[k].details.session_ids)
                                = {payload_assignments[j].session_id : j \in users}
                        /\ Len(validation.issues[k].details.session_ids)
                                = Cardinality(users)
               ELSE found = {}
        /\ \A k \in IssuesWithCode("ROOM_TIME_CONFLICT") :
                Cardinality(PlacedAt(validation.issues[k].details.room_id,
                                     validation.issues[k].details.time_slot_id)) > 1

C18_Witness ==
    /\ pc = "validated"
    /\ Cardinality(Checked) = 3
    /\ Cardinality(IssuesWithCode("ROOM_TIME_CONFLICT")) = 1
    /\ \E k \in IssuesWithCode("ROOM_TIME_CONFLICT") :
            Len(validation.issues[k].details.session_ids) = 2

\* C19: for every checked record whose session's instructor is not in the
\* instructor list, the report has an UNKNOWN_INSTRUCTOR issue for that
\* instructor id, whether or not the record's room and slot exist.
C19_UnknownInstructorReported ==
    pc = "validated" =>
        \A i \in Checked :
            ~HasId(data.instructors, SessionOf(i).instructor_id) =>
                \E k \in IssuesWithCode("UNKNOWN_INSTRUCTOR") :
                    validation.issues[k].details.instructor_id = SessionOf(i).instructor_id

\* The MISSING_SESSION_ASSIGNMENT issues of the report for one session id.
MissingFor(session_id) ==
    {k \in IssuesWithCode("MISSING_SESSION_ASSIGNMENT") :
        validation.issues[k].details.session_id = session_id}

\* C20: the report has exactly one MISSING_SESSION_ASSIGNMENT issue for every
\* expanded session id that no record of the list carries, none for an id
\* that a record carries, and none for anything else.
C20_MissingPerAbsentSession ==
    pc = "validated" =>
        LET ids == SessionIds(expand_course_sessions(data.courses))
            present == {payload_assignments[i].session_id : i \in DOMAIN payload_assignments}
        IN /\ \A id \in ids \ present : Cardinality(MissingFor(id)) = 1
           /\ \A id \in present : MissingFor(id) = {}
           /\ \A k \in IssuesWithCode("MISSING_SESSION_ASSIGNMENT") :
                    validation.issues[k].details.session_id \in ids

C20_Witness ==
    /\ pc = "validated"
    /\ Len(payload_assignments) = 3
    /\ Cardinality(Checked) = 1
    /\ Cardinality(IssuesWithCode("MISSING_SESSION_ASSIGNMENT")) = 2
    /\ {"MISSING_SESSION_ASSIGNMENT", "DUPLICATE_SESSION_ASSIGNMENT", "UNKNOWN_SESSION"}
            \subseteq IssueCodes(validation)

\* s without its i-th element.
RemoveAt(s, i) == [k \in 1..(Len(s) - 1) |-> IF k < i THEN s[k] ELSE s[k + 1]]

\* The records validate_schedule skips: unknown session ids and repeats of an
\* already-seen session id.
UnknownRecords ==
    {i \in DOMAIN payload_assignments :
        ~KnownRecord(expand_course_sessions(data.courses), payload_assignments, i)}

DuplicateRecords ==
    {i \in DOMAIN payload_assignments :
        DuplicateRecord(expand_course_sessions(data.courses), payload_assignments, i)}

\* Record i accounts for exactly the one issue `issue` of the report: the
\* report of the list without record i is the report without that issue.
OnlyIssueOfRecord(i, issue) ==
    \E k \in DOMAIN validation.issues :
        /\ validation.issues[k] = issue
        /\ validate_schedule(data, RemoveAt(payload_assignments, i)).issues
                = RemoveAt(validation.issues, k)

\* C21: a record with an unknown session id produces the UNKNOWN_SESSION
\* issue and a record repeating a seen session id produces the
\* DUPLICATE_SESSION_ASSIGNMENT issue, and nothing else in the report depends
\* on the record: no other per-record issue, no part in a room/slot or
\* instructor/slot conflict, no effect on the missing sessions.
C21_SkippedRecordOneIssue ==
    pc = "validated" =>
        /\ \A i \in UnknownRecords :
            OnlyIssueOfRecord(i, ValidationIssue("UNKNOWN_SESSION",
                                    [session_id |-> payload_assignments[i].session_id]))
        /\ \A i \in DuplicateRecords :
            OnlyIssueOfRecord(i, ValidationIssue("DUPLICATE_SESSION_ASSIGNMENT",
                                    [session_id |-> payload_assignments[i].session_id]))

\* A duplicate on the room and slot of a checked record, and an unknown
\* session on an unknown room and slot.
C21_Witness ==
    /\ pc = "validated"
    /\ Len(payload_assignments) = 3
    /\ \E i \in DuplicateRecords : \E j \in Checked :
            /\ payload_assignments[i].room_id = payload_assignments[j].room_id
            /\ payload_assignments[i].time_slot_id = payload_assignments[j].time_slot_id
    /\ \E i \in UnknownRecords :
            /\ payload_assignments[i].room_id = "R9"
            /\ payload_assignments[i].time_slot_id = "T9"
    /\ Len(validation.issues) >= 3

----------------------------------------------------------------------------
(* Properties of the exact path's own checks.                              *)

\* The instructor ids courses of d name that no instructor of d has.
UnlistedInstructorIds(d) ==
    {d.courses[c].instructor_id : c \in DOMAIN d.courses}
        \ {d.instructors[i].id : i \in DOMAIN d.instructors}

\* C13: when a course names an instructor id outside the instructor list,
\* the exact path returns model_invalid, no assignment and a note with the
\* unknown ids, without the engine; it does not return infeasible.
C13_UnknownInstructorModelInvalid ==
    (UnlistedInstructorIds(data) # {} /\ calls # <<>> /\ calls[1] = "cp_sat") =>
        /\ cp.status = "model_invalid"
        /\ cp.assignments = <<>>
        /\ cp.engine = "not_invoked"
        /\ cp.notes = <<Note("unknown_instructors", UnlistedInstructorIds(data))>>

\* The unknown instructor's course has no room large enough either.
C13_Witness ==
    /\ UnlistedInstructorIds(data) = {"I2"}
    /\ \E c \in DOMAIN data.courses :
            /\ data.courses[c].instructor_id = "I2"
            /\ \A r \in DOMAIN data.rooms : data.rooms[r].capacity < data.courses[c].enrollment
    /\ pc = "done"
    /\ solver_mode = "cp_sat"
    /\ result.status = "model_invalid"

\* C14: when every instructor is known and some session has no feasible
\* (room, slot) pair, the exact path returns infeasible, no assignment and a
\* note naming such a session, without the engine.
C14_EmptyFeasibleSetInfeasible ==
    (/\ UnlistedInstructorIds(data) = {}
     /\ \E c \in DOMAIN data.courses : StaticPairs(data, data.courses[c]) = {}
     /\ calls # <<>> /\ calls[1] = "cp_sat") =>
        /\ cp.status = "infeasible"
        /\ cp.assignments = <<>>
        /\ cp.engine = "not_invoked"
        /\ \E c \in DOMAIN data.courses :
            /\ StaticPairs(data, data.courses[c]) = {}
            /\ \E index \in 1..data.courses[c].sessions_per_week :
                cp.notes = <<Note("no_feasible_assignment", <<data.courses[c].id, index>>)>>

----------------------------------------------------------------------------
(* Properties of the assignment lists of the two solving paths.            *)

\* The records of one course id lie on pairwise different days when a
\* course of that id has avoid_same_day_sessions.
SameDayFree(d, assignments) ==
    \A c \in DOMAIN d.courses :
        d.courses[c].avoid_same_day_sessions
        => \A i, j \in DOMAIN assignments :
                (/\ i # j
                 /\ assignments[i].course_id = d.courses[c].id
                 /\ assignments[j].course_id = d.courses[c].id)
                => RecordDay(d, assignments[i]) # RecordDay(d, assignments[j])

\* C22: the assignment list of the exact path, and the heuristic's list
\* after every step of its loop, has no two sessions of an
\* avoid_same_day_sessions course on one day and no instructor above
\* max_sessions_per_day on any day.
C22_DayRulesKept ==
    /\ SameDayFree(data, cp.assignments)
    /\ DayCapRespected(data, cp.assignments)
    /\ SameDayFree(data, heur.assignments)
    /\ DayCapRespected(data, heur.assignments)

\* The heuristic has placed one session and left one out although a room and
\* slot free of both slot conflicts was among its candidates.
C22_Witness ==
    /\ pc = "done"
    /\ Len(heur.assignments) = 1
    /\ Len(heur.unscheduled) = 1
    /\ \E k \in DOMAIN heur.sorted_sessions :
        LET session == heur.sorted_sessions[k]
            candidates == heur.feasible_candidates[session.session_id]
        IN /\ session.session_id = heur.unscheduled[1]
           /\ \E n \in DOMAIN candidates :
                CandidateSurvivesDayBlind(data, heur, session, candidates[n])

----------------------------------------------------------------------------
(* The objective of the exact model and compute_objective_breakdown.       *)

\* The complete assignments of the model: the sets of variables with exactly
\* one variable of every session id.
RECURSIVE CompleteChoices(_, _, _)
CompleteChoices(x, sids, partials) ==
    IF sids = <<>> THEN partials
    ELSE CompleteChoices(x, Tail(sids),
            UNION {{T \cup {k} : k \in VarsBySession(x, Head(sids))} : T \in partials})

CompleteAssignments(d, x) ==
    LET sessions == expand_course_sessions(d.courses)
        sids == DistinctInOrder([i \in DOMAIN sessions |-> sessions[i].session_id])
    IN CompleteChoices(x, sids, {{}})

\* The total compute_objective_breakdown gives for the records of T.
BreakdownTotal(d, x, T) ==
    compute_objective_breakdown(d, CpDecode(x, T), d.options.objective_weights).total

\* The exact path has built its model for the current input and called the
\* engine.
EngineCalled == pc = "cp_returned" /\ cp.engine # "not_invoked"

\* C23: for every complete assignment of the exact model, the total of
\* compute_objective_breakdown on its records equals the model's objective
\* at that assignment; and an optimal result's objective_value is the maximum
\* of that total over the complete assignments that satisfy the model's hard
\* constraints.
C23_BreakdownMatchesModelObjective ==
    /\ EngineCalled =>
            \A T \in CompleteAssignments(data, CpVars(data)) :
                BreakdownTotal(data, CpVars(data), T) = CpObjective(data, CpVars(data), T)
    /\ (pc = "done" /\ result.solver = "cp_sat" /\ result.status = "optimal") =>
            /\ \A T \in CpSolutions(data, CpVars(data)) :
                    BreakdownTotal(data, CpVars(data), T) <= result.objective_value
            /\ \E T \in CpSolutions(data, CpVars(data)) :
                    BreakdownTotal(data, CpVars(data), T) = result.objective_value

----------------------------------------------------------------------------
(* The feasible sets of the two paths.                                     *)

\* The (room id, slot id) pairs of the variables the model builder creates
\* in its pass for one session.
VariablePairs(d, session) ==
    {<<v.room_id, v.time_slot_id>> : v \in Range(CpVarsOfSession(d, session))}

\* C24: when every course's instructor is listed, the candidates the
\* heuristic holds for a session are, as a set, the (room, slot) pairs the
\* exact model builder creates a variable for in that session's pass.
C24_FeasibleSetsAgree ==
    (pc = "heuristic" /\ UnlistedInstructorIds(data) = {}) =>
        \A k \in DOMAIN heur.sorted_sessions :
            Range(heur.feasible_candidates[heur.sorted_sessions[k].session_id])
                = VariablePairs(data, heur.sorted_sessions[k])

----------------------------------------------------------------------------
(* The heuristic's pass.                                                   *)

\* The bijections of 1..n.
Bijections(n) ==
    {f \in [1..n -> 1..n] : \A i, j \in 1..n : f[i] = f[j] => i = j}

\* Number of candidates the heuristic holds for a session.
CandidateCount(session) == Len(heur.feasible_candidates[session.session_id])

\* Session a goes before session b by the sort key alone.
KeyBefore(a, b) ==
    \/ CandidateCount(a) < CandidateCount(b)
    \/ CandidateCount(a) = CandidateCount(b) /\ a.priority > b.priority

\* C25: the order in which the heuristic's loop takes the sessions is the
\* expanded list rearranged so that of two sessions the earlier one has
\* fewer candidates, or as many and a higher priority, or is equal on both
\* and earlier in the expanded list.
C25_ProcessingOrder ==
    pc = "heuristic" =>
        LET sessions == expand_course_sessions(data.courses)
            n == Len(sessions)
        IN /\ Len(heur.sorted_sessions) = n
           /\ \E f \in Bijections(n) :
                /\ \A k \in 1..n : heur.sorted_sessions[k] = sessions[f[k]]
                /\ \A a, b \in 1..n :
                    a < b =>
                        \/ KeyBefore(heur.sorted_sessions[a], heur.sorted_sessions[b])
                        \/ /\ ~KeyBefore(heur.sorted_sessions[b], heur.sorted_sessions[a])
                           /\ f[a] < f[b]

\* The loop has taken the second session of the expanded list first, on its
\* priority alone.
C25_Witness ==
    /\ pc = "heuristic"
    /\ heur.next = 2
    /\ Len(heur.sorted_sessions) = 2
    /\ heur.sorted_sessions[1] = expand_course_sessions(data.courses)[2]
    /\ heur.sorted_sessions[1] # heur.sorted_sessions[2]
    /\ CandidateCount(heur.sorted_sessions[1]) = CandidateCount(heur.sorted_sessions[2])
    /\ CandidateCount(heur.sorted_sessions[1]) > 0
    /\ heur.sorted_sessions[1].priority > heur.sorted_sessions[2].priority

\* The session the loop takes next and the candidates it holds for it.
NextSession == heur.sorted_sessions[heur.next]

NextCandidates == heur.feasible_candidates[NextSession.session_id]

\* The four exclusion filters on a candidate of the next session, read off
\* the placements made so far.  The instructor filters are about the
\* session's instructor: when that instructor is not listed no candidate
\* passes them.
PassesFilters(cand) ==
    LET day == ById(data.time_slots, cand[2]).day
        taken == heur.assignments
        cap == ById(data.instructors, NextSession.instructor_id).max_sessions_per_day
    IN /\ HasId(data.instructors, NextSession.instructor_id)
       /\ \A i \in DOMAIN taken :
            /\ <<taken[i].room_id, taken[i].time_slot_id>> # cand
            /\ <<taken[i].instructor_id, taken[i].time_slot_id>>
                    # <<NextSession.instructor_id, cand[2]>>
       /\ NextSession.avoid_same_day_sessions =>
            \A i \in DOMAIN taken :
                taken[i].course_id = NextSession.course_id
                => RecordDay(data, taken[i]) # day
       /\ cap # 0 =>
            Cardinality({i \in DOMAIN taken :
                            /\ taken[i].instructor_id = NextSession.instructor_id
                            /\ RecordDay(data, taken[i]) = day}) < cap

\* One pass of the loop body follows the placement rule.
PlacementRule ==
    LET passing == {n \in DOMAIN NextCandidates : PassesFilters(NextCandidates[n])}
    IN /\ heur'.next = heur.next + 1
       /\ IF passing = {}
          THEN /\ heur'.assignments = heur.assignments
               /\ heur'.unscheduled = Append(heur.unscheduled, NextSession.session_id)
          ELSE /\ heur'.unscheduled = heur.unscheduled
               /\ \E n \in passing :
                    /\ heur'.assignments =
                            Append(heur.assignments,
                                   ScheduleAssignment(NextSession, NextCandidates[n][1],
                                                      NextCandidates[n][2]))
                    /\ \A m \in passing :
                            CandidateScore(data, heur, NextSession, NextCandidates[m])
                                <= CandidateScore(data, heur, NextSession, NextCandidates[n])

RoomIdRank(room_id) ==
    CASE room_id = "R1" -> 1
      [] room_id = "R2" -> 2
      [] OTHER -> 3

CandidateBefore(a, b) ==
    \/ RoomIdRank(a[1]) < RoomIdRank(b[1])
    \/ /\ a[1] = b[1]
       /\ ById(data.time_slots, a[2]).order < ById(data.time_slots, b[2]).order

\* The candidates of the next session that pass the filters with the highest
\* local score among those that pass.
TopCandidates ==
    LET passing == {n \in DOMAIN NextCandidates : PassesFilters(NextCandidates[n])}
    IN {NextCandidates[n] : n \in
            {k \in passing : \A m \in passing :
                CandidateScore(data, heur, NextSession, NextCandidates[m])
                    <= CandidateScore(data, heur, NextSession, NextCandidates[k])}}

\* C27: when several passing candidates share the highest local score, the
\* pass places the session on the one that is first by room id ascending,
\* then slot order index ascending, whatever the order of the room list.
C27_TieByRoomIdThenSlotOrder ==
    [][(HeuristicIterate /\ Cardinality(TopCandidates) > 1) =>
            \E best \in TopCandidates :
                /\ \A other \in TopCandidates \ {best} : CandidateBefore(best, other)
                /\ heur'.assignments =
                        Append(heur.assignments,
                               ScheduleAssignment(NextSession, best[1], best[2]))]_vars

\* The session ids the pass has dealt with so far, placed or left out, as a
\* bag: listed once per session taken.
TakenIds ==
    [k \in 1..Len(heur.assignments) |-> heur.assignments[k].session_id] \o heur.unscheduled

\* Every session taken so far is either placed or unscheduled, once: the
\* first next - 1 sessions of the loop's order, each counted once.
EachTakenOnce ==
    LET taken == [k \in 1..(heur.next - 1) |-> heur.sorted_sessions[k].session_id]
    IN /\ Len(TakenIds) = heur.next - 1
       /\ \A id \in Range(taken) \cup Range(TakenIds) :
            Cardinality({k \in DOMAIN TakenIds : TakenIds[k] = id})
                = Cardinality({k \in DOMAIN taken : taken[k] = id})

\* A step keeps every record already in the assignment list, and every id
\* already in the unscheduled list, where it is.
ListsOnlyGrow ==
    /\ Len(heur'.assignments) >= Len(heur.assignments)
    /\ \A k \in DOMAIN heur.assignments : heur'.assignments[k] = heur.assignments[k]
    /\ Len(heur'.unscheduled) >= Len(heur.unscheduled)
    /\ \A k \in DOMAIN heur.unscheduled : heur'.unscheduled[k] = heur.unscheduled[k]

\* C28: the heuristic is one pass: each loop step takes one further session
\* and adds it either to the assignments or to the unscheduled list, never
\* changing or removing an earlier placement, and the pass ends with every
\* session taken exactly once.
C28_SinglePass ==
    /\ [](pc = "heuristic" => EachTakenOnce)
    /\ [][(pc = "heuristic" /\ pc' = "heuristic") =>
                (heur'.next = heur.next + 1 /\ ListsOnlyGrow)]_vars
    /\ []((pc = "done" /\ heur # HeurIdle) =>
                (EachTakenOnce /\ heur.next = Len(heur.sorted_sessions) + 1
                    /\ result.assignments
                        = StableSort(heur.assignments, AssignmentLess)))
    /\ (pc = "heuristic") ~> (pc = "done")

C28_Witness ==
    /\ pc = "done"
    /\ Len(heur.sorted_sessions) = 2
    /\ Len(heur.assignments) = 1
    /\ Len(heur.unscheduled) = 1
    /\ heur.assignments[1].session_id = heur.sorted_sessions[1].session_id
    /\ heur.unscheduled[1] = heur.sorted_sessions[2].session_id
    /\ heur.unscheduled[1] # heur.assignments[1].session_id

\* The notes of the result that count unscheduled sessions.
LeftUnscheduledNotes ==
    {k \in DOMAIN result.notes : result.notes[k].kind = "left_unscheduled"}

\* Every expanded session has its record in the result: as many records as
\* sessions, id by id.
EverySessionPlaced ==
    LET sessions == expand_course_sessions(data.courses)
    IN /\ Len(result.assignments) = Len(sessions)
       /\ \A id \in SessionIds(sessions) :
            Cardinality({k \in DOMAIN result.assignments :
                            result.assignments[k].session_id = id})
                = Cardinality({k \in DOMAIN sessions : sessions[k].session_id = id})

\* C29: a result of the heuristic has status fallback exactly when every
\* expanded session was placed; otherwise it has status fallback_partial and
\* one note counting the unscheduled sessions, the number of expanded
\* sessions minus the number placed.
C29_HeuristicStatus ==
    (pc = "done" /\ result.solver = "heuristic") =>
        /\ result.status = "fallback" <=> EverySessionPlaced
        /\ result.status = "fallback" => LeftUnscheduledNotes = {}
        /\ result.status # "fallback" =>
            /\ result.status = "fallback_partial"
            /\ Cardinality(LeftUnscheduledNotes) = 1
            /\ \A k \in LeftUnscheduledNotes :
                    result.notes[k].arg
                        = Len(expand_course_sessions(data.courses)) - Len(result.assignments)

\* Two sessions left unscheduled for different causes: one of an unlisted
\* instructor, one of a listed instructor.
C29_Witness ==
    /\ pc = "done"
    /\ result.solver = "heuristic"
    /\ result.status = "fallback_partial"
    /\ Len(heur.sorted_sessions) = 2
    /\ result.assignments = <<>>
    /\ \E k \in LeftUnscheduledNotes : result.notes[k].arg = 2
    /\ \E k \in 1..2 : ~HasId(data.instructors, heur.sorted_sessions[k].instructor_id)
    /\ \E k \in 1..2 : HasId(data.instructors, heur.sorted_sessions[k].instructor_id)

DistinctCourseIds(d) ==
    \A i, j \in DOMAIN d.courses : i # j => d.courses[i].id # d.courses[j].id

\* C30: on an input with pairwise distinct course ids, a result of the
\* heuristic has hard_violations = sessions_required - sessions_scheduled,
\* its report holds only MISSING_SESSION_ASSIGNMENT issues, one per session
\* without a record, and the report is valid exactly when the status is
\* fallback.
C30_HeuristicHardViolations ==
    (pc = "done" /\ result.solver = "heuristic" /\ DistinctCourseIds(data)) =>
        LET placed == {result.assignments[k].session_id : k \in DOMAIN result.assignments}
            absent == SessionIds(expand_course_sessions(data.courses)) \ placed
        IN /\ result.metrics.hard_violations
                = result.metrics.sessions_required - result.metrics.sessions_scheduled
           /\ Len(validation.issues) = result.metrics.hard_violations
           /\ \A k \in DOMAIN validation.issues :
                /\ validation.issues[k].code = "MISSING_SESSION_ASSIGNMENT"
                /\ validation.issues[k].details.session_id \in absent
           /\ \A id \in absent : Cardinality(MissingFor(id)) = 1
           /\ validation.valid <=> result.status = "fallback"

\* A heuristic result on a room list that repeats a room id, with one
\* session placed and one left out.
C30_Witness ==
    /\ pc = "done"
    /\ result.solver = "heuristic"
    /\ DistinctCourseIds(data)
    /\ result.metrics.sessions_required = 2
    /\ result.metrics.sessions_scheduled = 1
    /\ result.metrics.hard_violations = 1
    /\ result.status = "fallback_partial"
    /\ ~validation.valid
    /\ Len(data.rooms) = 2
    /\ data.rooms[1].id = data.rooms[2].id

=============================================================================
